---- MODULE Spec2Model ----
(***************************************************************************)
(* State-machine model of the registry-driven ingestion engine:            *)
(*   engine/data_handler.py     DataHandler (read_file, match_file,        *)
(*                              to_process_files)                          *)
(*   engine/data_transformer.py DataTransformer.execute                    *)
(*   engine/data_validator.py   Validator.execute / _execute_validator     *)
(*   engine/reporter.py         Reporter.write_report                      *)
(*   utils/validators.py, utils/transformers.py  the function registries   *)
(*                                                                         *)
(* Text is modelled as sequences of one-character strings, so that glob    *)
(* matching, basename/splitext and the "Passed" substring test are         *)
(* computed as the library computes them.  Python values True/False/None   *)
(* are the strings "True"/"False"/"None".  Python dicts are sequences of   *)
(* [key, val] records in insertion order.                                  *)
(***************************************************************************)
EXTENDS Integers, Sequences, FiniteSets, TLC

VARIABLES
    step_type,              \* "transform" | "validate": which executor runs
    registry,               \* handler.registry: dict pattern -> rule
    file_paths,             \* the file_paths argument of execute
    pc,                     \* position inside execute
    to_process_files,       \* dict path -> [data, pattern]
    error_files,            \* dict path -> list of messages
    err_idx,                \* error_files entries already reported
    file_idx,               \* index of the current entry of to_process_files
    step_idx,               \* index of the next step / validator of the chain
    sorted_transforms,      \* DataTransformer.execute local
    modified_data,          \* DataTransformer.execute local
    transform_log,          \* DataTransformer.execute local
    messages,               \* per-file message list
    file_validation_results,\* Validator.execute local (dict name -> result)
    validation_results,     \* Validator.execute return value
    transformation_results, \* DataTransformer.execute return value
    report_files,           \* report directory: report stem -> lines
    output_files,           \* output directory: file name -> content
    calls,                  \* history: every function invoked, per file
    report_calls,           \* history: every write_report call
    pipeline_config,        \* main.run: pipeline_config['steps']
    run_idx,                \* main.run: steps the loop has taken up
    run_pc,                 \* main.run: position inside run
    run_log,                \* history: what run did, step by step
    ctor_call,              \* the arguments of a constructor call
    step_instance           \* the outcome of the constructor call

vars == <<step_type, registry, file_paths, pc, to_process_files, error_files,
          err_idx, file_idx, step_idx, sorted_transforms, modified_data,
          transform_log, messages, file_validation_results,
          validation_results, transformation_results, report_files,
          output_files, calls, report_calls,
          pipeline_config, run_idx, run_pc, run_log, ctor_call, step_instance>>

\* the variables of main.run and of the constructors
run_vars == <<pipeline_config, run_idx, run_pc, run_log, ctor_call, step_instance>>

\* the variables of one execute call and of the Reporter
exec_vars == <<step_type, registry, file_paths, pc, to_process_files, error_files,
               err_idx, file_idx, step_idx, sorted_transforms, modified_data,
               transform_log, messages, file_validation_results,
               validation_results, transformation_results, report_files,
               output_files, calls, report_calls>>

----------------------------------------------------------------------------
(* Bounds of the model *)

\* longest batch of input files handed to execute
MaxBatch == 2

\* longest transform list / validator map of a registry rule
MaxChain == 2

\* the largest number of write_report calls made on one Reporter
MaxWrites == 2

\* the longest list of steps of a pipeline configuration
MaxSteps == 3

----------------------------------------------------------------------------
(* Sequences and text *)

Range(s) == {s[i] : i \in 1..Len(s)}

\* all sequences of distinct elements of S of length 0..n
RECURSIVE DistinctSeqs(_, _)
DistinctSeqs(S, n) ==
    IF n = 0 THEN {<<>>}
    ELSE LET shorter == DistinctSeqs(S, n - 1)
         IN shorter \cup UNION {{Append(s, x) : x \in S \ Range(s)} : s \in shorter}

Reverse(s) == [i \in 1..Len(s) |-> s[Len(s) + 1 - i]]

\* str.rfind, 1-based, 0 when absent
rfind(s, c) ==
    LET I == {i \in 1..Len(s) : s[i] = c}
    IN IF I = {} THEN 0 ELSE CHOOSE i \in I : \A j \in I : j <= i

\* `sub in s` for strings
Contains(s, sub) ==
    \E i \in 0..(Len(s) - Len(sub)) : SubSeq(s, i + 1, i + Len(sub)) = sub

endswith(s, suf) ==
    Len(s) >= Len(suf) /\ SubSeq(s, Len(s) - Len(suf) + 1, Len(s)) = suf

LowerChar(c) ==
    CASE c = "C" -> "c"
      [] c = "S" -> "s"
      [] c = "V" -> "v"
      [] c = "P" -> "p"
      [] OTHER -> c

lower(s) == [i \in 1..Len(s) |-> LowerChar(s[i])]

\* os.path.basename
basename(p) == SubSeq(p, rfind(p, "/") + 1, Len(p))

\* os.path.splitext: the extension starts at the last dot of the last
\* component, unless only dots precede it there
splitext(p) ==
    LET sepIndex == rfind(p, "/")
        dotIndex == rfind(p, ".")
    IN IF dotIndex > sepIndex
          /\ \E k \in (sepIndex + 1)..(dotIndex - 1) : p[k] # "."
       THEN [root |-> SubSeq(p, 1, dotIndex - 1), ext |-> SubSeq(p, dotIndex, Len(p))]
       ELSE [root |-> p, ext |-> <<>>]

\* fnmatch.fnmatch on POSIX (normcase is the identity): * matches any run of
\* characters, ? exactly one, anything else itself
RECURSIVE fnmatch(_, _)
fnmatch(name, pat) ==
    IF pat = <<>> THEN name = <<>>
    ELSE IF Head(pat) = "*"
         THEN fnmatch(name, Tail(pat))
              \/ (name # <<>> /\ fnmatch(Tail(name), pat))
    ELSE IF Head(pat) = "?"
         THEN name # <<>> /\ fnmatch(Tail(name), Tail(pat))
    ELSE name # <<>> /\ Head(name) = Head(pat) /\ fnmatch(Tail(name), Tail(pat))

\* Python's None where a string is expected
None == <<"<None>">>

----------------------------------------------------------------------------
(* Python dicts: sequences of [key, val] in insertion order *)

DictKeys(d) == [i \in 1..Len(d) |-> d[i].key]

DictHas(d, k) == \E i \in 1..Len(d) : d[i].key = k

DictGet(d, k) == d[CHOOSE i \in 1..Len(d) : d[i].key = k].val

\* d[k] = v
DictSet(d, k, v) ==
    IF DictHas(d, k)
    THEN [i \in 1..Len(d) |-> IF d[i].key = k THEN [key |-> k, val |-> v] ELSE d[i]]
    ELSE Append(d, [key |-> k, val |-> v])

\* d.update(e)
RECURSIVE DictUpdate(_, _)
DictUpdate(d, e) ==
    IF e = <<>> THEN d
    ELSE DictUpdate(DictSet(d, Head(e).key, Head(e).val), Tail(e))

----------------------------------------------------------------------------
(* Messages: a template and the text substituted into it *)

Msg(t, arg) == [t |-> t, arg |-> arg]

Passed == <<"P", "a", "s", "s", "e", "d">>

\* the templates whose fixed text holds the word Passed
PassedTemplates == {"{name}: Passed"}

\* "Passed" in message
ContainsPassed(m) == m.t \in PassedTemplates \/ Contains(m.arg, Passed)

----------------------------------------------------------------------------
(* Datasets: the column names and the cells of the string column region *)

Dataset(columns, region) == [columns |-> columns, region |-> region]

\* len(df)
RowCount(df) == Len(df.region)

UpperChar(c) == CASE c = "w" -> "W" [] c = "e" -> "E" [] OTHER -> c

\* str.upper
upper(s) == [i \in 1..Len(s) |-> UpperChar(s[i])]

\* str.strip
RECURSIVE strip(_)
strip(s) ==
    IF s = <<>> THEN s
    ELSE IF Head(s) = " " THEN strip(Tail(s))
    ELSE IF s[Len(s)] = " " THEN strip(SubSeq(s, 1, Len(s) - 1))
    ELSE s

\* result_df[col] = <cells> for the column region, when it is among the
\* requested columns and present in df
SetRegion(df, columns, cells) ==
    IF "region" \in Range(columns) /\ "region" \in Range(df.columns)
    THEN [df EXCEPT !.region = cells]
    ELSE df

StripCells(df) == [i \in 1..Len(df.region) |-> strip(df.region[i])]

UpperCells(df) == [i \in 1..Len(df.region) |-> upper(df.region[i])]

LowerCells(df) == [i \in 1..Len(df.region) |-> lower(df.region[i])]

----------------------------------------------------------------------------
(* utils/transformers.py: a call returns the new dataset and the message   *)
(* list, or raises                                                         *)

Returned(df, msgs) == [raised |-> FALSE, df |-> df, messages |-> msgs, error |-> ""]

Raised(df, msgs, error) == [raised |-> TRUE, df |-> df, messages |-> msgs, error |-> error]

\* keyword parameters of a registry step; the values of absent keywords are
\* the callee's defaults
Params(kw, columns, to_uppercase, to_lowercase) ==
    [kw |-> kw, columns |-> columns, to_uppercase |-> to_uppercase,
     to_lowercase |-> to_lowercase]

\* Python's binding of **params to a signature
BindsTo(params, required, optional) ==
    required \subseteq params.kw /\ params.kw \subseteq (required \cup optional)

strings_strip_whitespace(df, msgs, params) ==
    IF ~BindsTo(params, {"columns"}, {"strip_whitespace"})
    THEN Raised(df, msgs, "TypeError")
    ELSE Returned(SetRegion(df, params.columns, StripCells(df)),
                  Append(msgs, Msg("strings_strip_whitespace: string columns {columns} transformed.",
                                   params.columns)))

case_transform(df, msgs, params) ==
    IF ~BindsTo(params, {"columns"}, {"to_uppercase", "to_lowercase"})
    THEN Raised(df, msgs, "TypeError")
    ELSE IF params.to_uppercase /\ params.to_lowercase
    THEN Raised(df, msgs, "Cannot set both to_uppercase and to_lowercase to True")
    ELSE IF ~(params.to_uppercase \/ params.to_lowercase)
    THEN Raised(df, msgs, "At least one of to_uppercase or to_lowercase must be True")
    ELSE Returned(SetRegion(df, params.columns,
                            IF params.to_uppercase THEN UpperCells(df) ELSE LowerCells(df)),
                  Append(msgs, Msg("case_transform: string columns {columns} transformed.",
                                   params.columns)))

blank(df, msgs, params) ==
    IF ~BindsTo(params, {}, {})
    THEN Raised(df, msgs, "TypeError")
    ELSE Returned(df, Append(msgs, Msg("blank No operation has been correctly made.", <<>>)))

TRANSFORMERS_DICT == {"strings_strip_whitespace", "case_transform", "blank"}

\* TRANSFORMERS_DICT[function](df, messages=msgs, **params)
CallTransformer(function, df, msgs, params) ==
    CASE function = "strings_strip_whitespace" -> strings_strip_whitespace(df, msgs, params)
      [] function = "case_transform" -> case_transform(df, msgs, params)
      [] function = "blank" -> blank(df, msgs, params)

----------------------------------------------------------------------------
(* utils/validators.py: a call returns a value and the message list, or    *)
(* raises                                                                  *)

Result(value, msgs) == [raised |-> FALSE, result |-> value, messages |-> msgs, error |-> <<>>]

Raises(msgs, error) == [raised |-> TRUE, result |-> "None", messages |-> msgs, error |-> error]

\* the params of a validators entry: None, or a list of column names
NoParams == [none |-> TRUE, columns |-> <<>>]

Columns(cols) == [none |-> FALSE, columns |-> cols]

always_true_validator(df, msgs, params) == Result("True", msgs)

always_false_validator(df, msgs, params) ==
    Result("False", Append(msgs, Msg("This validator always returns False.", <<>>)))

required_columns(df, msgs, columns) ==
    LET missing_columns == SelectSeq(columns, LAMBDA col : col \notin Range(df.columns))
    IN IF missing_columns # <<>>
       THEN Raises(Append(msgs, Msg("Missing columns: {missing}", missing_columns)),
                   Msg("Mandatory columns are missing, cannot proceed with validation.", <<>>))
       ELSE Result("True", msgs)

additional_columns(df, msgs, columns) ==
    LET additional_cols == SelectSeq(df.columns, LAMBDA col : col \notin Range(columns))
    IN IF additional_cols # <<>>
       THEN Result("False", Append(msgs, Msg("Additional columns found: {additional}",
                                             additional_cols)))
       ELSE Result("True", msgs)

is_empty_dataframe(df, msgs) ==
    IF RowCount(df) = 0
    THEN Raises(Append(msgs, Msg("The dataframe is empty, cannot proceed with validation.", <<>>)),
                Msg("The dataframe is empty, cannot proceed with validation.", <<>>))
    ELSE Result("True", msgs)

\* validators added to the dictionary, as the comment above it provides for:
\* one for each kind of value, other than True and False, that execute can be
\* handed: None, 0, and a tuple led by the verdict
returns_none(df, msgs, params) == Result("None", msgs)

returns_zero(df, msgs, params) == Result("0", msgs)

TupleTrue == "(True, 'checked')"
TupleFalse == "(False, 'rejected')"

returns_true_tuple(df, msgs, params) == Result(TupleTrue, msgs)

returns_false_tuple(df, msgs, params) ==
    Result(TupleFalse, Append(msgs, Msg("The verdict is the tuple's first element.", <<>>)))

AddedValidators ==
    {"returns_none", "returns_zero", "returns_true_tuple", "returns_false_tuple"}

VALIDATORS_DICT == {"always_true_validator", "always_false_validator", "required_columns",
                    "additional_columns", "is_empty_dataframe"} \cup AddedValidators

TypeError == Msg("TypeError: wrong number of positional arguments", <<>>)

\* validator_func(dataset, messages) when params is None, else
\* validator_func(dataset, messages, params)
CallValidator(name, df, msgs, params) ==
    CASE name = "always_true_validator" -> always_true_validator(df, msgs, params)
      [] name = "always_false_validator" -> always_false_validator(df, msgs, params)
      [] name = "required_columns" ->
            IF params.none THEN Raises(msgs, TypeError)
            ELSE required_columns(df, msgs, params.columns)
      [] name = "additional_columns" ->
            IF params.none THEN Raises(msgs, TypeError)
            ELSE additional_columns(df, msgs, params.columns)
      [] name = "is_empty_dataframe" ->
            IF params.none THEN is_empty_dataframe(df, msgs)
            ELSE Raises(msgs, TypeError)
      [] name = "returns_none" -> returns_none(df, msgs, params)
      [] name = "returns_zero" -> returns_zero(df, msgs, params)
      [] name = "returns_true_tuple" -> returns_true_tuple(df, msgs, params)
      [] name = "returns_false_tuple" -> returns_false_tuple(df, msgs, params)

----------------------------------------------------------------------------
(* The inputs: files on disk, registry patterns and rules *)

FileGood     == <<"d", "/", "a", "b", ".", "c", "s", "v">>
FileNoAmount == <<"d", "/", "a", "c", ".", "c", "s", "v">>
FileEmpty    == <<"a", "/", "b", "b", ".", "C", "S", "V">>
FileText     == <<"d", "/", "a", "b", ".", "t", "x", "t">>
FileCorrupt  == <<"d", "/", "a", "c", ".", "p", "a", "r", "q", "u", "e", "t">>

InputFiles == {FileGood, FileNoAmount, FileEmpty, FileText, FileCorrupt}

DataGood     == Dataset(<<"region", "amount">>, << <<" ", "w", "e">> >>)
DataNoAmount == Dataset(<<"region", "extra">>, << <<"w", "e", " ">> >>)
DataEmpty    == Dataset(<<"region", "amount">>, <<>>)
NoData       == Dataset(<<>>, <<>>)

\* what pd.read_csv / pd.read_parquet finds at a path: a table, or a file
\* it cannot parse
Disk(path) ==
    CASE path = FileGood     -> [readable |-> TRUE,  data |-> DataGood]
      [] path = FileNoAmount -> [readable |-> TRUE,  data |-> DataNoAmount]
      [] path = FileEmpty    -> [readable |-> TRUE,  data |-> DataEmpty]
      [] OTHER               -> [readable |-> FALSE, data |-> NoData]

PatternA   == <<"a", "*">>
PatternB   == <<"*", "b", ".", "*">>
PatternC   == <<"?", "c", ".", "c", "s", "v">>

\* the key orders of the registries considered
KeyLists == {<<PatternA>>, <<PatternA, PatternB>>,
             <<PatternB, PatternA>>, <<PatternC, PatternA>>}

Step(name, function, order, params) ==
    [name |-> name, function |-> function, order |-> order, params |-> params]

TransformSteps ==
    << Step("strip", "strings_strip_whitespace", 1, Params({"columns"}, <<"region">>, FALSE, FALSE)),
       Step("upper", "case_transform", 2, Params({"columns", "to_uppercase"}, <<"region">>, TRUE, FALSE)),
       Step("noflag", "case_transform", 2, Params({"columns"}, <<"region">>, FALSE, FALSE)),
       Step("ghost", "no_such_transform", 1, Params({}, <<>>, FALSE, FALSE)),
       Step("noop", "blank", 3, Params({}, <<>>, FALSE, FALSE)) >>

ValidatorEntries ==
    << [key |-> "always_false_validator", val |-> NoParams],
       [key |-> "required_columns", val |-> Columns(<<"region", "amount">>)],
       [key |-> "additional_columns", val |-> Columns(<<"region", "amount">>)],
       [key |-> "is_empty_dataframe", val |-> NoParams],
       [key |-> "no_such_validator", val |-> NoParams] >>

\* the chains of at most n of the given entries, in the order given
Chains(entries, n) ==
    {[i \in 1..Len(ix) |-> entries[ix[i]]] :
        ix \in {s \in DistinctSeqs(1..Len(entries), n) :
                   \A i \in 1..(Len(s) - 1) : s[i] < s[i + 1]}}

\* a registry entry: the keys the YAML mapping holds and their values
Rule(transforms, validators) ==
    [transforms |-> transforms, validators |-> validators,
     keys |-> {"transforms", "validators"}]

\* a registry entry written without one of the keys
Without(rule, key) == [rule EXCEPT !.keys = @ \ {key}]

\* a registry with the given keys; the rules of successive keys declare the
\* chain forwards and backwards in turn
RegistryOf(keys, transforms, validators) ==
    [i \in 1..Len(keys) |->
        [key |-> keys[i],
         val |-> IF i % 2 = 1 THEN Rule(transforms, validators)
                 ELSE Rule(Reverse(transforms), Reverse(validators))]]

\* a registry whose entries lack the given key
RegistryLacking(keys, key) ==
    [i \in 1..Len(keys) |-> [key |-> keys[i], val |-> Without(Rule(<<>>, <<>>), key)]]

Registries(type) ==
    IF type = "transform"
    THEN {RegistryOf(keys, chain, <<>>) :
             keys \in KeyLists, chain \in Chains(TransformSteps, MaxChain)}
         \cup {RegistryLacking(keys, "transforms") : keys \in KeyLists}
    ELSE {RegistryOf(keys, <<>>, chain) :
             keys \in KeyLists, chain \in Chains(ValidatorEntries, MaxChain)}
         \cup {RegistryLacking(keys, "validators") : keys \in KeyLists}

Batches == DistinctSeqs(InputFiles, MaxBatch)

\* settings.OUTPUT_FORMAT, the default
OUTPUT_FORMAT == <<"p", "a", "r", "q", "u", "e", "t">>

\* Reporter.base_report_path and the executors' output folder
base_report_path == <<"r">>
output_folder_path == <<"o">>

\* os.path.join of a folder and a name
join(folder, name) == folder \o <<"/">> \o name

----------------------------------------------------------------------------
(* engine/data_handler.py *)

\* str(list) of a list of strings
RECURSIVE ListItems(_)
ListItems(l) ==
    IF l = <<>> THEN <<>>
    ELSE <<"'">> \o Head(l) \o <<"'">>
         \o (IF Len(l) > 1 THEN <<",", " ">> ELSE <<>>) \o ListItems(Tail(l))

ListRepr(l) == <<"[">> \o ListItems(l) \o <<"]">>

\* mutant of MatchedName: the patterns are matched against the whole path
MatchedWholePath(file_path) == file_path

\* the name match_file matches the patterns against
MatchedName(file_path) == basename(file_path)

\* the list comprehension of match_file over the keys of a registry, in key
\* order
MatchesIn(keys, file_path) ==
    SelectSeq(keys, LAMBDA pattern : fnmatch(MatchedName(file_path), pattern))

Matches(file_path) == MatchesIn(DictKeys(registry), file_path)

NoError == Msg("None", <<>>)

\* match_file of a handler whose registry has the given keys
match_file_in(keys, file_path) ==
    LET matches == MatchesIn(keys, file_path)
    IN IF Len(matches) > 1
       THEN [pattern |-> None,
             error |-> Msg("Multiple matches found for {file_path}: {matches}. Cannot uniquely identify processing routine.",
                           file_path \o <<":", " ">> \o ListRepr(matches))]
       ELSE IF matches # <<>>
       THEN [pattern |-> matches[1], error |-> NoError]
       ELSE [pattern |-> None,
             error |-> Msg("No matching pattern found in registry for: {file_path}. Impossible to identify a work routine.",
                           file_path)]

match_file(file_path) == match_file_in(DictKeys(registry), file_path)

read_file(file_path) ==
    IF endswith(lower(file_path), <<".", "c", "s", "v">>)
       \/ endswith(lower(file_path), <<".", "p", "a", "r", "q", "u", "e", "t">>)
    THEN IF Disk(file_path).readable
         THEN [is_none |-> FALSE, data |-> Disk(file_path).data, messages |-> <<>>]
         ELSE [is_none |-> TRUE, data |-> NoData,
               messages |-> <<Msg("Error reading file {file_path}: {e}", file_path)>>]
    ELSE [is_none |-> TRUE, data |-> NoData,
          messages |-> <<Msg("Unsupported file format for {file_path}. Only CSV and Parquet files are supported.",
                              file_path)>>]

\* the truth value of a str-or-None
Truthy(x) == x # None /\ x # <<>>

\* mutant of ProcessOne: the file is matched before it is read
ProcessOneMatchingFirst(file_path, acc) ==
    LET read == read_file(file_path)
        match == match_file(file_path)
    IN IF ~Truthy(match.pattern)
       THEN [acc EXCEPT !.error_files =
                DictSet(@, file_path, IF match.error # NoError THEN <<match.error>> ELSE <<>>)]
       ELSE IF read.is_none
       THEN [acc EXCEPT !.error_files = DictSet(@, file_path, read.messages)]
       ELSE [acc EXCEPT !.to_process_files =
                DictSet(@, file_path, [data |-> read.data, pattern |-> match.pattern])]

\* one iteration of the loop of to_process_files
ProcessOne(file_path, acc) ==
    LET read == read_file(file_path)
        match == match_file(file_path)
    IN IF read.is_none
       THEN [acc EXCEPT !.error_files = DictSet(@, file_path, read.messages)]
       ELSE IF Truthy(match.pattern)
       THEN [acc EXCEPT !.to_process_files =
                DictSet(@, file_path, [data |-> read.data, pattern |-> match.pattern])]
       ELSE [acc EXCEPT !.error_files =
                DictSet(@, file_path, IF match.error # NoError THEN <<match.error>> ELSE <<>>)]

RECURSIVE ProcessAll(_, _)
ProcessAll(paths, acc) ==
    IF paths = <<>> THEN acc
    ELSE ProcessAll(Tail(paths), ProcessOne(Head(paths), acc))

\* DataHandler.to_process_files
ToProcess(paths) == ProcessAll(paths, [to_process_files |-> <<>>, error_files |-> <<>>])

----------------------------------------------------------------------------
(* engine/reporter.py *)

\* mutant of Suppressed: any() in place of all()
SuppressedIfAnyPassed(msgs) ==
    IF msgs = <<>> THEN TRUE ELSE \E i \in 1..Len(msgs) : ContainsPassed(msgs[i])

\* the guard of write_report: nothing is written for these message lists
Suppressed(msgs) ==
    msgs = <<>> \/ \A i \in 1..Len(msgs) : ContainsPassed(msgs[i])

\* mutant of _create_report_path: the extension is not removed
_create_report_path_keeping_extension(input_file_path) ==
    join(base_report_path, basename(input_file_path))

_create_report_path(input_file_path) ==
    splitext(join(base_report_path, basename(input_file_path))).root

ReportPath(input_file_path) ==
    _create_report_path(input_file_path) \o <<".", "t", "x", "t">>

\* mutant of write_report: the report file is opened for appending
write_report_appending(files, input_file_path, msgs) ==
    IF Suppressed(msgs) THEN files
    ELSE LET path == ReportPath(input_file_path)
         IN (path :> (IF path \in DOMAIN files THEN files[path] \o msgs ELSE msgs)) @@ files

\* the report directory after write_report(input_file_path, msgs)
write_report(files, input_file_path, msgs) ==
    IF Suppressed(msgs) THEN files
    ELSE (ReportPath(input_file_path) :> msgs) @@ files

ReportCall(input_file_path, msgs) ==
    [file |-> input_file_path, messages |-> msgs, written |-> ~Suppressed(msgs)]

----------------------------------------------------------------------------
(* engine/data_transformer.py *)

\* mutant of SortByOrder: steps with equal order keys come out in the reverse
\* of their declaration order
RECURSIVE SortTiesReversed(_)
SortTiesReversed(transforms) ==
    IF transforms = <<>> THEN <<>>
    ELSE LET x == transforms[Len(transforms)]
             rest == SortTiesReversed(SubSeq(transforms, 1, Len(transforms) - 1))
         IN SelectSeq(rest, LAMBDA y : y.order < x.order) \o <<x>>
            \o SelectSeq(rest, LAMBDA y : y.order >= x.order)

\* sorted(transforms, key=lambda x: x["order"]): a stable insertion sort
RECURSIVE InsertByOrder(_, _)
InsertByOrder(x, sorted) ==
    IF sorted = <<>> THEN <<x>>
    ELSE IF x.order < Head(sorted).order THEN <<x>> \o sorted
    ELSE <<Head(sorted)>> \o InsertByOrder(x, Tail(sorted))

RECURSIVE SortByOrder(_)
SortByOrder(transforms) ==
    IF transforms = <<>> THEN <<>>
    ELSE InsertByOrder(transforms[Len(transforms)],
                       SortByOrder(SubSeq(transforms, 1, Len(transforms) - 1)))

LogEntry(name, status, error) == [transform |-> name, status |-> status, error |-> error]

\* a history entry: function `name` was called for `file` with dataset df,
\* returned or raised (outcome), and left the dataset `result`
Call(file, kind, name, df, outcome, result) ==
    [file |-> file, kind |-> kind, name |-> name, df |-> df, outcome |-> outcome,
     result |-> result]

\* mutant of ApplyTransform: a raising step leaves no working dataset
ApplyTransformDropsData(transform, data, msgs, log) ==
    IF transform.function \in TRANSFORMERS_DICT
    THEN LET r == CallTransformer(transform.function, data, msgs, transform.params)
         IN [modified_data |-> IF r.raised THEN NoData ELSE r.df,
             transform_log |-> Append(log, LogEntry(transform.name,
                                                    IF r.raised THEN "failed" ELSE "success",
                                                    r.error)),
             messages |-> Append(r.messages, Msg("Transform '{name}' ended", <<transform.name>>)),
             called |-> TRUE, outcome |-> IF r.raised THEN "raised" ELSE "returned"]
    ELSE [modified_data |-> data,
          transform_log |-> Append(log, LogEntry(transform.name, "failed",
                                                 "Transformer function not found")),
          messages |-> Append(msgs, Msg("Transformer function '{function}' not found",
                                        <<transform.function>>)),
          called |-> FALSE, outcome |-> "not found"]

\* the body of the loop over sorted_transforms, for one step: the locals
\* after it and whether the function was called
ApplyTransform(transform, data, msgs, log) ==
    IF transform.function \in TRANSFORMERS_DICT
    THEN LET r == CallTransformer(transform.function, data, msgs, transform.params)
         IN IF ~r.raised
            THEN [modified_data |-> r.df,
                  transform_log |-> Append(log, LogEntry(transform.name, "success", "")),
                  messages |-> Append(r.messages,
                                      Msg("Transform '{name}' completed successfully", <<transform.name>>)),
                  called |-> TRUE, outcome |-> "returned"]
            ELSE [modified_data |-> data,
                  transform_log |-> Append(log, LogEntry(transform.name, "failed", r.error)),
                  messages |-> Append(r.messages,
                                      Msg("Error in transform '{name}': {e}", <<transform.name, r.error>>)),
                  called |-> TRUE, outcome |-> "raised"]
    ELSE [modified_data |-> data,
          transform_log |-> Append(log, LogEntry(transform.name, "failed",
                                                 "Transformer function not found")),
          messages |-> Append(msgs, Msg("Transformer function '{function}' not found",
                                        <<transform.function>>)),
          called |-> FALSE, outcome |-> "not found"]

\* mutant of NoneFailed: the test written without its negation
AnyFailed(log) == \E i \in 1..Len(log) : log[i].status = "failed"

\* mutant of NoneFailed: only the last entry of the log is looked at
LastNotFailed(log) ==
    IF Len(log) = 0 THEN TRUE ELSE log[Len(log)].status # "failed"

\* the guard of the save: not any(log["status"] == "failed" ...)
NoneFailed(log) == ~\E i \in 1..Len(log) : log[i].status = "failed"

\* the path save_transformed_file writes
TransformedPath(original_path) ==
    join(output_folder_path,
         splitext(basename(original_path)).root \o <<".">> \o OUTPUT_FORMAT)

\* the header line of a transformation report
Header(file_path) ==
    Msg("------ TRANSFORMATION RESULTS for {file_path} -------", file_path)

CurrentFile == to_process_files[file_idx]

----------------------------------------------------------------------------
(* engine/data_validator.py *)

\* the path save_valid_files copies the input file to
ValidPath(path) == join(output_folder_path, basename(path))

\* result[0] if isinstance(result, tuple) else result
FirstIfTuple(result) ==
    CASE result = TupleTrue -> "True"
      [] result = TupleFalse -> "False"
      [] OTHER -> result

\* mutant of _execute_validator: the text of the exception is not appended
_execute_validator_dropping_error(validator_name, dataset, msgs, params) ==
    LET r == CallValidator(validator_name, dataset, msgs, params)
    IN IF r.raised
       THEN [result |-> "False", messages |-> r.messages, outcome |-> "raised"]
       ELSE [result |-> FirstIfTuple(r.result), messages |-> r.messages,
             outcome |-> FirstIfTuple(r.result)]

\* _execute_validator: the value handed back to execute and the message list
\* after the call
_execute_validator(validator_name, dataset, msgs, params) ==
    LET r == CallValidator(validator_name, dataset, msgs, params)
    IN IF r.raised
       THEN [result |-> "False", messages |-> Append(r.messages, r.error),
             outcome |-> "raised"]
       ELSE [result |-> FirstIfTuple(r.result), messages |-> r.messages,
             outcome |-> FirstIfTuple(r.result)]

\* mutant of StopsChain: no result ends the chain
StopsChainNever(result) == FALSE

\* mutant of StopsChain: the test written `not result`
StopsChainOnFalsy(result) == result \in {"False", "None", "0"}

\* mutant of StopsChain: the test written `result is None`
StopsChainOnNone(result) == result = "None"

\* `result is False`: the test that ends a file's chain
StopsChain(result) == result = "False"

\* the values bool() turns into False
Falsy == {"False", "None", "0"}

\* mutant of IsTrue: `result is not False` in place of the truth value
IsNotFalse(result) == result # "False"

\* the truth value of a validator result
IsTrue(result) == result \notin Falsy

\* the summary lines appended after a completed chain
SummaryLines(results) ==
    [i \in 1..Len(results) |->
        Msg(IF IsTrue(results[i].val) THEN "{name}: Passed" ELSE "{name}: Failed",
            <<results[i].key>>)]

SummaryHeader == Msg("------ VALIDATION RESULTS -------", <<>>)

\* mutant of AllPassed: any() in place of all()
AnyPassed(results) == \E i \in 1..Len(results) : results[i].val = "True"

\* all(result for result in file_validation_results.values())
AllPassed(results) == \A i \in 1..Len(results) : IsTrue(results[i].val)

----------------------------------------------------------------------------
(* The constructors and main.py *)

\* the name of a step, and the folders and files a configuration names
StepName       == <<"v">>
ReportFolder   == <<"r">>
FolderFull     == <<"i">>
FolderEmpty    == <<"e">>
OutputFolder   == <<"o">>
RegistrySound    == <<"s", ".", "y">>
RegistryUnknown  == <<"u", ".", "y">>
RegistryKeyless  == <<"k", ".", "y">>
RegistryAbsent   == <<"x", ".", "y">>

\* settings.PATH_STAGING_RUN
PATH_STAGING_RUN == <<"s", "t">>

\* os.walk over an input folder
FilesIn(folder) == IF folder = FolderFull THEN <<FileGood>> ELSE <<>>

\* the registry files that exist, with what yaml.safe_load makes of them
RegistryFiles == {RegistrySound, RegistryUnknown, RegistryKeyless}

RegistryAt(path) ==
    CASE path = RegistrySound ->
            RegistryOf(<<PatternA>>, <<TransformSteps[1]>>, <<ValidatorEntries[2]>>)
      [] path = RegistryUnknown ->
            RegistryOf(<<PatternA>>, <<TransformSteps[4]>>, <<ValidatorEntries[5]>>)
      [] path = RegistryKeyless ->
            <<[key |-> PatternA, val |-> [Rule(<<>>, <<>>) EXCEPT !.keys = {}]]>>

NoInstance ==
    [type |-> "None", name |-> None, output_folder_path |-> None,
     handler |-> [registry_path |-> None, input_folder_path |-> None,
                  output_folder_path |-> None],
     reporter |-> [base_report_path |-> None]]

\* what a constructor call comes to: the object, or the exception raised
Constructed(instance) == [raised |-> "None", error |-> "", instance |-> instance]

ConstructorRaises(exception, error) ==
    [raised |-> exception, error |-> error, instance |-> NoInstance]

NotBuilt == [raised |-> "not built", error |-> "", instance |-> NoInstance]

\* DataHandler.__init__
DataHandler_init(registry_path, input_folder_path, output_folder) ==
    IF registry_path = None
    THEN ConstructorRaises("ValueError", "registry_path must be provided")
    ELSE IF input_folder_path = None
    THEN ConstructorRaises("ValueError", "input_folder_path must be provided")
    ELSE IF output_folder = None
    THEN ConstructorRaises("ValueError", "output_folder_path must be provided")
    ELSE IF registry_path \notin RegistryFiles
    THEN ConstructorRaises("FileNotFoundError", "No such file or directory")
    ELSE Constructed([NoInstance EXCEPT
                         !.handler = [registry_path |-> registry_path,
                                      input_folder_path |-> input_folder_path,
                                      output_folder_path |-> output_folder]])

\* Reporter.__init__
Reporter_init(report_path) ==
    IF report_path = None
    THEN ConstructorRaises("ValueError", "base_report_path must be provided")
    ELSE Constructed([NoInstance EXCEPT !.reporter = [base_report_path |-> report_path]])

\* output_folder_path or name
OrName(output_folder, name) == IF Truthy(output_folder) THEN output_folder ELSE name

\* Validator.__init__
Validator_init(name, registry_path, report_path, input_folder_path, output_folder) ==
    IF name = None
    THEN ConstructorRaises("ValueError", "Step name must be provided. In this way you can identify the step in the logs")
    ELSE LET handler == DataHandler_init(registry_path, input_folder_path, output_folder)
             reporter == Reporter_init(report_path)
         IN IF handler.raised # "None" THEN handler
            ELSE IF reporter.raised # "None" THEN reporter
            ELSE Constructed([type |-> "validate", name |-> name,
                              output_folder_path |-> OrName(output_folder, name),
                              handler |-> handler.instance.handler,
                              reporter |-> reporter.instance.reporter])

\* DataTransformer.__init__
DataTransformer_init(name, registry_path, report_path, input_folder_path, output_folder) ==
    IF name = None
    THEN ConstructorRaises("ValueError", "Step name must be provided. In this way you can identify the step in the logs")
    ELSE LET handler == DataHandler_init(registry_path, input_folder_path, output_folder)
             reporter == Reporter_init(report_path)
         IN IF handler.raised # "None" THEN handler
            ELSE IF reporter.raised # "None" THEN reporter
            ELSE Constructed([type |-> "transform", name |-> name,
                              output_folder_path |-> join(PATH_STAGING_RUN, output_folder),
                              handler |-> handler.instance.handler,
                              reporter |-> reporter.instance.reporter])

\* the arguments of a constructor call, and an entry of the steps list
StepConfig(type, name, registry_path, report_path, input_folder_path, output_folder) ==
    [none |-> FALSE, type |-> type, name |-> name, registry_path |-> registry_path,
     report_path |-> report_path, input_folder_path |-> input_folder_path,
     output_folder_path |-> output_folder]

\* a None entry of the steps list
NoneStep == [StepConfig("None", None, None, None, None, None) EXCEPT !.none = TRUE]

\* main.step_factory
step_factory(step) ==
    IF step.type = "transform"
    THEN DataTransformer_init(step.name, step.registry_path, step.report_path,
                              step.input_folder_path,
                              OrName(step.output_folder_path, step.name))
    ELSE IF step.type = "validate"
    THEN Validator_init(step.name, step.registry_path, step.report_path,
                        step.input_folder_path,
                        OrName(step.output_folder_path, step.name))
    ELSE ConstructorRaises("ValueError", "Unsupported step type: {step_type}")

\* the way the validator loop of one file is left: by the ValueError of an
\* unregistered name, by the break, or through its else branch, to the copy
\* or to the report
RECURSIVE ChainExit(_, _, _)
ChainExit(validators, dataset, all_passed) ==
    IF validators = <<>> THEN (IF all_passed THEN "copy" ELSE "report")
    ELSE IF Head(validators).key \notin VALIDATORS_DICT THEN "ValueError"
    ELSE LET r == _execute_validator(Head(validators).key, dataset, <<>>, Head(validators).val)
         IN IF StopsChain(r.result) THEN "break"
            ELSE ChainExit(Tail(validators), dataset, all_passed /\ IsTrue(r.result))

\* the way execute() of a constructed step ends: "None" when it returns, else
\* the exception that leaves it.  The files of the input folder are readable
\* and match the one pattern of the registry.
execute_exit(instance, copy_ok) ==
    IF FilesIn(instance.handler.input_folder_path) = <<>>
    THEN "FileNotFoundError"
    ELSE LET rule == DictGet(RegistryAt(instance.handler.registry_path), PatternA)
             dataset == Disk(FilesIn(instance.handler.input_folder_path)[1]).data
         IN IF instance.type = "transform"
            THEN (IF "transforms" \in rule.keys THEN "None" ELSE "KeyError")
            ELSE IF "validators" \notin rule.keys THEN "KeyError"
            ELSE LET exit == ChainExit(rule.validators, dataset, TRUE)
                 IN IF exit = "ValueError" THEN "ValueError"
                    ELSE IF exit = "copy" /\ ~copy_ok THEN "OSError"
                    ELSE "None"

\* mutant of Caught: the clause written `except Exception`
CaughtAlways(exception) == TRUE

\* except ValueError
Caught(exception) == exception = "ValueError"

----------------------------------------------------------------------------
(* The state machine *)

\* main.run and the constructors are not part of the behaviour
NotRunning ==
    /\ pipeline_config = <<>>
    /\ run_idx = 0
    /\ run_pc = "idle"
    /\ run_log = <<>>
    /\ ctor_call = NoneStep
    /\ step_instance = NotBuilt

Init ==
    /\ NotRunning
    /\ step_type \in {"transform", "validate"}
    /\ registry \in Registries(step_type)
    /\ file_paths \in Batches
    /\ pc = "start"
    /\ to_process_files = <<>>
    /\ error_files = <<>>
    /\ err_idx = 0
    /\ file_idx = 0
    /\ step_idx = 1
    /\ sorted_transforms = <<>>
    /\ modified_data = NoData
    /\ transform_log = <<>>
    /\ messages = <<>>
    /\ file_validation_results = <<>>
    /\ validation_results = <<>>
    /\ transformation_results = <<>>
    /\ report_files = <<>>
    /\ output_files = <<>>
    /\ calls = <<>>
    /\ report_calls = <<>>

\* self.handler.to_process_files(file_paths), the first statement of both
\* execute methods
ToProcessFiles ==
    /\ pc = "start"
    /\ LET r == ToProcess(file_paths)
       IN /\ to_process_files' = r.to_process_files
          /\ error_files' = r.error_files
          /\ pc' = IF step_type = "transform" /\ r.error_files # <<>>
                   THEN "report_errors" ELSE "files"
    /\ UNCHANGED run_vars
    /\ UNCHANGED <<step_type, registry, file_paths, err_idx, file_idx, step_idx,
                   sorted_transforms, modified_data, transform_log, messages,
                   file_validation_results, validation_results,
                   transformation_results, report_files, output_files, calls,
                   report_calls>>

\* DataTransformer.execute: one iteration of the loop over error_files
ReportErrorFile ==
    /\ pc = "report_errors"
    /\ err_idx < Len(error_files)
    /\ LET e == error_files[err_idx + 1]
       IN /\ report_files' = write_report(report_files, e.key, e.val)
          /\ report_calls' = Append(report_calls, ReportCall(e.key, e.val))
    /\ err_idx' = err_idx + 1
    /\ pc' = IF err_idx + 1 = Len(error_files) THEN "files" ELSE "report_errors"
    /\ UNCHANGED run_vars
    /\ UNCHANGED <<step_type, registry, file_paths, to_process_files, error_files,
                   file_idx, step_idx, sorted_transforms, modified_data,
                   transform_log, messages, file_validation_results,
                   validation_results, transformation_results, output_files,
                   calls>>

\* DataTransformer.execute: the head of the loop over to_process_files
TransformBeginFile ==
    /\ pc = "files"
    /\ step_type = "transform"
    /\ file_idx < Len(to_process_files)
    /\ LET f == to_process_files[file_idx + 1]
           rule == DictGet(registry, f.val.pattern)
       IN IF "transforms" \in rule.keys
          THEN /\ sorted_transforms' = SortByOrder(rule.transforms)
               /\ modified_data' = f.val.data
               /\ transform_log' = <<>>
               /\ step_idx' = 1
               /\ pc' = "chain"
          ELSE \* registry[pattern]["transforms"]: KeyError
               /\ pc' = "raised"
               /\ UNCHANGED <<sorted_transforms, modified_data, transform_log, step_idx>>
    /\ file_idx' = file_idx + 1
    /\ messages' = <<>>
    /\ UNCHANGED run_vars
    /\ UNCHANGED <<step_type, registry, file_paths, to_process_files, error_files,
                   err_idx, file_validation_results, validation_results,
                   transformation_results, report_files, output_files, calls,
                   report_calls>>

\* DataTransformer.execute: one iteration of the loop over sorted_transforms
TransformStep ==
    /\ pc = "chain"
    /\ step_type = "transform"
    /\ step_idx <= Len(sorted_transforms)
    /\ LET transform == sorted_transforms[step_idx]
           r == ApplyTransform(transform, modified_data, messages, transform_log)
       IN /\ modified_data' = r.modified_data
          /\ transform_log' = r.transform_log
          /\ messages' = r.messages
          /\ calls' = IF r.called
                      THEN Append(calls, Call(CurrentFile.key, "transform", transform.name,
                                              modified_data, r.outcome, r.modified_data))
                      ELSE calls
    /\ step_idx' = step_idx + 1
    /\ UNCHANGED run_vars
    /\ UNCHANGED <<step_type, registry, file_paths, pc, to_process_files, error_files,
                   err_idx, file_idx, sorted_transforms, file_validation_results,
                   validation_results, transformation_results, report_files,
                   output_files, report_calls>>

\* DataTransformer.execute: after the steps of a file: save, record, report.
\* Writing the output file may fail (save_ok = FALSE: RuntimeError).
TransformFinishFile ==
    /\ pc = "chain"
    /\ step_type = "transform"
    /\ step_idx > Len(sorted_transforms)
    /\ \E save_ok \in BOOLEAN :
         LET file_path == CurrentFile.key
             saving == NoneFailed(transform_log)
             log == IF saving /\ ~save_ok
                    THEN Append(transform_log,
                                LogEntry("save_file", "failed", "Error saving transformed file"))
                    ELSE transform_log
             msgs == IF ~saving THEN messages
                     ELSE IF save_ok
                     THEN Append(messages, Msg("Transformed file saved to: {output_path}",
                                               TransformedPath(file_path)))
                     ELSE Append(messages, Msg("Error saving transformed file: {e}", <<>>))
             report == <<Header(file_path)>> \o msgs
         IN /\ saving \/ save_ok
            /\ output_files' = IF saving /\ save_ok
                               THEN (TransformedPath(file_path) :> modified_data) @@ output_files
                               ELSE output_files
            /\ calls' = IF saving
                        THEN Append(calls, Call(file_path, "save", "save_transformed_file",
                                                modified_data,
                                                IF save_ok THEN "returned" ELSE "raised",
                                                modified_data))
                        ELSE calls
            /\ transform_log' = log
            /\ transformation_results' =
                  DictSet(transformation_results, file_path,
                          [data |-> modified_data, log |-> log])
            /\ messages' = IF msgs # <<>> THEN report ELSE msgs
            /\ report_files' = IF msgs # <<>>
                               THEN write_report(report_files, file_path, report)
                               ELSE report_files
            /\ report_calls' = IF msgs # <<>>
                               THEN Append(report_calls, ReportCall(file_path, report))
                               ELSE report_calls
    /\ pc' = "files"
    /\ UNCHANGED run_vars
    /\ UNCHANGED <<step_type, registry, file_paths, to_process_files, error_files,
                   err_idx, file_idx, step_idx, sorted_transforms, modified_data,
                   file_validation_results, validation_results>>

\* Validator.execute: the head of the loop over to_process_files
ValidateBeginFile ==
    /\ pc = "files"
    /\ step_type = "validate"
    /\ file_idx < Len(to_process_files)
    /\ LET rule == DictGet(registry, to_process_files[file_idx + 1].val.pattern)
       IN IF "validators" \in rule.keys
          THEN /\ step_idx' = 1
               /\ pc' = "chain"
          ELSE \* registry[pattern]['validators']: KeyError
               /\ pc' = "raised"
               /\ UNCHANGED step_idx
    /\ file_idx' = file_idx + 1
    /\ messages' = <<>>
    /\ file_validation_results' = <<>>
    /\ UNCHANGED run_vars
    /\ UNCHANGED <<step_type, registry, file_paths, to_process_files, error_files,
                   err_idx, sorted_transforms, modified_data, transform_log,
                   validation_results, transformation_results, report_files,
                   output_files, calls, report_calls>>

\* the validators of the current file's rule
Validators == DictGet(registry, CurrentFile.val.pattern).validators

\* Validator.execute: one iteration of the loop over validators.items()
ValidatorStep ==
    /\ pc = "chain"
    /\ step_type = "validate"
    /\ step_idx <= Len(Validators)
    /\ LET validator_name == Validators[step_idx].key
           params == Validators[step_idx].val
           file_path == CurrentFile.key
           dataset == CurrentFile.val.data
           r == _execute_validator(validator_name, dataset, messages, params)
       IN IF validator_name \notin VALIDATORS_DICT
          THEN \* raise ValueError(f"Validator {validator_name} not found")
               /\ pc' = "raised"
               /\ UNCHANGED <<messages, calls, report_files, report_calls,
                              file_validation_results, step_idx>>
          ELSE /\ messages' = r.messages
               /\ calls' = Append(calls, Call(file_path, "validator", validator_name,
                                              dataset, r.outcome, dataset))
               /\ IF StopsChain(r.result)
                  THEN /\ report_files' = write_report(report_files, file_path, r.messages)
                       /\ report_calls' = Append(report_calls, ReportCall(file_path, r.messages))
                       /\ pc' = "files"
                       /\ UNCHANGED <<file_validation_results, step_idx>>
                  ELSE /\ file_validation_results' =
                             DictSet(file_validation_results, validator_name, r.result)
                       /\ step_idx' = step_idx + 1
                       /\ UNCHANGED <<report_files, report_calls, pc>>
    /\ UNCHANGED run_vars
    /\ UNCHANGED <<step_type, registry, file_paths, to_process_files, error_files,
                   err_idx, file_idx, sorted_transforms, modified_data, transform_log,
                   validation_results, transformation_results, output_files>>

\* Validator.execute: the else branch of the loop over the validators.
\* Copying the input file may fail (copy_ok = FALSE: OSError leaves execute).
ValidateFinishFile ==
    /\ pc = "chain"
    /\ step_type = "validate"
    /\ step_idx > Len(Validators)
    /\ \E copy_ok \in BOOLEAN :
         LET file_path == CurrentFile.key
             msgs == Append(messages, SummaryHeader) \o SummaryLines(file_validation_results)
             copying == AllPassed(file_validation_results)
         IN /\ copying \/ copy_ok
            /\ messages' = msgs
            /\ validation_results' = DictUpdate(validation_results, file_validation_results)
            /\ calls' = IF copying
                        THEN Append(calls, Call(file_path, "copy", "save_valid_files",
                                                CurrentFile.val.data,
                                                IF copy_ok THEN "returned" ELSE "raised",
                                                CurrentFile.val.data))
                        ELSE calls
            /\ output_files' = IF copying /\ copy_ok
                               THEN (ValidPath(file_path) :> Disk(file_path).data) @@ output_files
                               ELSE output_files
            /\ report_files' = IF copying THEN report_files
                               ELSE write_report(report_files, file_path, msgs)
            /\ report_calls' = IF copying THEN report_calls
                               ELSE Append(report_calls, ReportCall(file_path, msgs))
            /\ pc' = IF copying /\ ~copy_ok THEN "raised" ELSE "files"
    /\ UNCHANGED run_vars
    /\ UNCHANGED <<step_type, registry, file_paths, to_process_files, error_files,
                   err_idx, file_idx, step_idx, sorted_transforms, modified_data,
                   transform_log, file_validation_results, transformation_results>>

\* both execute methods: the return after the last file
Return ==
    /\ pc = "files"
    /\ file_idx = Len(to_process_files)
    /\ pc' = "done"
    /\ UNCHANGED run_vars
    /\ UNCHANGED <<step_type, registry, file_paths, to_process_files, error_files,
                   err_idx, file_idx, step_idx, sorted_transforms, modified_data,
                   transform_log, messages, file_validation_results,
                   validation_results, transformation_results, report_files,
                   output_files, calls, report_calls>>

Next ==
    \/ ToProcessFiles
    \/ ReportErrorFile
    \/ TransformBeginFile
    \/ TransformStep
    \/ TransformFinishFile
    \/ ValidateBeginFile
    \/ ValidatorStep
    \/ ValidateFinishFile
    \/ Return

Spec == Init /\ [][Next]_vars

----------------------------------------------------------------------------
(* A Reporter used on its own: any sequence of write_report calls *)

\* message lists as the executors build them: pass and fail summary lines and
\* an error line quoting a file name
LinePassed == Msg("{name}: Passed", <<"required_columns">>)
LineFailed == Msg("{name}: Failed", <<"additional_columns">>)
LineQuotingPassed ==
    Msg("Unsupported file format for {file_path}. Only CSV and Parquet files are supported.",
        <<"d", "/">> \o Passed \o <<".", "x">>)

MessageLists ==
    {<<>>, <<LinePassed>>, <<LinePassed, LineQuotingPassed>>, <<LineFailed>>,
     <<LinePassed, LineFailed>>, <<LineFailed, LinePassed>>}

\* a file of a subfolder that os.walk lists besides FileGood
FileElsewhere == <<"d", "/", "e", "/", "a", "b", ".", "c", "s", "v">>

\* the files reports are written for; three of them share the stem ab
ReportedFiles == {FileGood, FileText, FileNoAmount, FileElsewhere}

InitReporter ==
    /\ NotRunning
    /\ step_type = "report"
    /\ registry = <<>>
    /\ file_paths = <<>>
    /\ pc = "reporter"
    /\ to_process_files = <<>>
    /\ error_files = <<>>
    /\ err_idx = 0
    /\ file_idx = 0
    /\ step_idx = 1
    /\ sorted_transforms = <<>>
    /\ modified_data = NoData
    /\ transform_log = <<>>
    /\ messages = <<>>
    /\ file_validation_results = <<>>
    /\ validation_results = <<>>
    /\ transformation_results = <<>>
    /\ report_files = <<>>
    /\ output_files = <<>>
    /\ calls = <<>>
    /\ report_calls = <<>>

\* reporter.write_report(input_file_path, messages)
ReporterWrite ==
    /\ pc = "reporter"
    /\ Len(report_calls) < MaxWrites
    /\ \E input_file_path \in ReportedFiles, msgs \in MessageLists :
          /\ report_files' = write_report(report_files, input_file_path, msgs)
          /\ report_calls' = Append(report_calls, ReportCall(input_file_path, msgs))
    /\ UNCHANGED run_vars
    /\ UNCHANGED <<step_type, registry, file_paths, pc, to_process_files, error_files,
                   err_idx, file_idx, step_idx, sorted_transforms, modified_data,
                   transform_log, messages, file_validation_results,
                   validation_results, transformation_results, output_files, calls>>

SpecReporter == InitReporter /\ [][ReporterWrite]_vars

----------------------------------------------------------------------------
(* Validator.execute over rules that also name added validators *)

ValidateEntries ==
    << [key |-> "returns_none", val |-> NoParams],
       [key |-> "returns_true_tuple", val |-> NoParams],
       [key |-> "required_columns", val |-> Columns(<<"region", "amount">>)],
       [key |-> "returns_zero", val |-> NoParams],
       [key |-> "always_false_validator", val |-> NoParams],
       [key |-> "returns_false_tuple", val |-> NoParams],
       [key |-> "always_true_validator", val |-> NoParams],
       [key |-> "no_such_validator", val |-> NoParams] >>

\* the validators mappings considered: each chain declared forwards and
\* backwards
ValidateChains ==
    Chains(ValidateEntries, MaxChain)
        \cup {Reverse(chain) : chain \in Chains(ValidateEntries, MaxChain)}

ValidateRegistries ==
    {RegistryOf(<<PatternA>>, <<>>, chain) : chain \in ValidateChains}
        \cup {RegistryLacking(<<PatternA>>, "validators")}

ValidateBatches == DistinctSeqs({FileGood, FileNoAmount, FileCorrupt}, MaxBatch)

InitValidate ==
    /\ NotRunning
    /\ step_type = "validate"
    /\ registry \in ValidateRegistries
    /\ file_paths \in ValidateBatches
    /\ pc = "start"
    /\ to_process_files = <<>>
    /\ error_files = <<>>
    /\ err_idx = 0
    /\ file_idx = 0
    /\ step_idx = 1
    /\ sorted_transforms = <<>>
    /\ modified_data = NoData
    /\ transform_log = <<>>
    /\ messages = <<>>
    /\ file_validation_results = <<>>
    /\ validation_results = <<>>
    /\ transformation_results = <<>>
    /\ report_files = <<>>
    /\ output_files = <<>>
    /\ calls = <<>>
    /\ report_calls = <<>>

NextValidate ==
    \/ ToProcessFiles
    \/ ValidateBeginFile
    \/ ValidatorStep
    \/ ValidateFinishFile
    \/ Return

SpecValidate == InitValidate /\ [][NextValidate]_vars

----------------------------------------------------------------------------
(* A constructor called on its own *)

\* no execute call is part of the behaviour
NotExecuting ==
    /\ step_type = "none"
    /\ registry = <<>>
    /\ file_paths = <<>>
    /\ pc = "idle"
    /\ to_process_files = <<>>
    /\ error_files = <<>>
    /\ err_idx = 0
    /\ file_idx = 0
    /\ step_idx = 1
    /\ sorted_transforms = <<>>
    /\ modified_data = NoData
    /\ transform_log = <<>>
    /\ messages = <<>>
    /\ file_validation_results = <<>>
    /\ validation_results = <<>>
    /\ transformation_results = <<>>
    /\ report_files = <<>>
    /\ output_files = <<>>
    /\ calls = <<>>
    /\ report_calls = <<>>

\* the constructor calls considered: each argument given or None, the output
\* folder also as the empty string
ConstructorCalls ==
    {StepConfig(type, name, registry_path, report_path, input_folder_path, output_folder) :
        type \in {"transform", "validate"},
        name \in {None, StepName},
        registry_path \in {None, RegistrySound, RegistryAbsent},
        report_path \in {None, ReportFolder},
        input_folder_path \in {None, FolderFull},
        output_folder \in {None, <<>>, OutputFolder}}

InitConstruct ==
    /\ NotExecuting
    /\ pipeline_config = <<>>
    /\ run_idx = 0
    /\ run_pc = "construct"
    /\ run_log = <<>>
    /\ ctor_call \in ConstructorCalls
    /\ step_instance = NotBuilt

\* DataTransformer(...) or Validator(...)
Construct ==
    /\ run_pc = "construct"
    /\ step_instance' =
          IF ctor_call.type = "transform"
          THEN DataTransformer_init(ctor_call.name, ctor_call.registry_path,
                                    ctor_call.report_path, ctor_call.input_folder_path,
                                    ctor_call.output_folder_path)
          ELSE Validator_init(ctor_call.name, ctor_call.registry_path,
                              ctor_call.report_path, ctor_call.input_folder_path,
                              ctor_call.output_folder_path)
    /\ run_pc' = "constructed"
    /\ UNCHANGED <<pipeline_config, run_idx, run_log, ctor_call>>
    /\ UNCHANGED exec_vars

SpecConstruct == InitConstruct /\ [][Construct]_vars

----------------------------------------------------------------------------
(* main.run *)

ConfiguredStep(type, registry_path, input_folder_path, output_folder) ==
    StepConfig(type, StepName, registry_path, ReportFolder, input_folder_path, output_folder)

\* the entries of the steps list considered
PipelineSteps ==
    {NoneStep,
     ConfiguredStep("validate", RegistrySound, FolderFull, None),
     ConfiguredStep("transform", RegistrySound, FolderFull, OutputFolder),
     ConfiguredStep("export", RegistrySound, FolderFull, None),
     ConfiguredStep("validate", None, FolderFull, None),
     ConfiguredStep("validate", RegistryUnknown, FolderFull, None),
     ConfiguredStep("transform", RegistrySound, FolderEmpty, None),
     ConfiguredStep("validate", RegistryKeyless, FolderFull, None),
     ConfiguredStep("transform", RegistryAbsent, FolderFull, None)}

Pipelines == UNION {[1..n -> PipelineSteps] : n \in 0..MaxSteps}

\* an entry of the history of run
RunEvent(step, event, exception) == [step |-> step, event |-> event, exception |-> exception]

InitRun ==
    /\ NotExecuting
    /\ pipeline_config \in Pipelines
    /\ run_idx = 0
    /\ run_pc = "loop"
    /\ run_log = <<>>
    /\ ctor_call = NoneStep
    /\ step_instance = NotBuilt

\* run: the head of the loop over the steps, up to step_factory(step_type, **step)
RunTakeStep ==
    /\ run_pc = "loop"
    /\ run_idx < Len(pipeline_config)
    /\ run_idx' = run_idx + 1
    /\ LET step == pipeline_config[run_idx + 1]
           built == step_factory(step)
       IN IF step.none
          THEN /\ run_log' = Append(run_log, RunEvent(run_idx + 1, "skipped", "None"))
               /\ UNCHANGED <<run_pc, ctor_call, step_instance>>
          ELSE /\ ctor_call' = step
               /\ step_instance' = built
               /\ run_log' = Append(run_log, RunEvent(run_idx + 1, "construct", built.raised))
               /\ run_pc' = IF built.raised = "None" THEN "execute"
                            ELSE IF Caught(built.raised) THEN "loop"
                            ELSE "crashed"
    /\ UNCHANGED pipeline_config
    /\ UNCHANGED exec_vars

\* run: step_instance.execute().  Copying a valid file may fail (copy_ok =
\* FALSE: OSError).
RunExecute ==
    /\ run_pc = "execute"
    /\ \E copy_ok \in BOOLEAN :
         LET exit == execute_exit(step_instance.instance, copy_ok)
         IN /\ run_log' = Append(run_log, RunEvent(run_idx, "execute", exit))
            /\ run_pc' = IF exit = "None" \/ Caught(exit) THEN "loop" ELSE "crashed"
    /\ UNCHANGED <<pipeline_config, run_idx, ctor_call, step_instance>>
    /\ UNCHANGED exec_vars

\* run: the end of the loop
RunEnd ==
    /\ run_pc = "loop"
    /\ run_idx = Len(pipeline_config)
    /\ run_pc' = "ended"
    /\ UNCHANGED <<pipeline_config, run_idx, run_log, ctor_call, step_instance>>
    /\ UNCHANGED exec_vars

NextRun ==
    \/ RunTakeStep
    \/ RunExecute
    \/ RunEnd

SpecRun == InitRun /\ [][NextRun]_vars

----------------------------------------------------------------------------
(* Vocabulary of the properties *)

\* the k-th matched file has been processed to the end of its loop body
Finished(k) == k < file_idx \/ (k = file_idx /\ pc \in {"files", "done"})

MatchedFiles == 1..Len(to_process_files)

PathOf(k) == to_process_files[k].key

RuleOf(k) == DictGet(registry, to_process_files[k].val.pattern)

\* the calls made for one file, in order
CallsFor(path, kind) == SelectSeq(calls, LAMBDA c : c.file = path /\ c.kind = kind)

Invoked(path, name) ==
    \E i \in 1..Len(calls) :
        calls[i].file = path /\ calls[i].kind = "validator" /\ calls[i].name = name

OutcomeOf(path, name, outcome) ==
    \E i \in 1..Len(calls) :
        /\ calls[i].file = path /\ calls[i].kind = "validator"
        /\ calls[i].name = name /\ calls[i].outcome = outcome

ReportsFor(path) == {i \in 1..Len(report_calls) : report_calls[i].file = path}

Copied(path) ==
    \E i \in 1..Len(calls) :
        calls[i].file = path /\ calls[i].kind = "copy" /\ calls[i].outcome = "returned"

\* the validators the spec designates critical
Critical == {"required_columns", "is_empty_dataframe"}

----------------------------------------------------------------------------
(* Validation chain *)

\* C1: in Validator.execute, when a non-critical validator returns False the
\* chain is not stopped: every validator declared after it in the rule is
\* still invoked on that file.
C1_SoftFailureContinues ==
    step_type = "validate" =>
      \A k \in MatchedFiles :
        Finished(k) =>
          \A i \in 1..Len(RuleOf(k).validators) :
            LET v == RuleOf(k).validators[i].key
            IN (v \notin Critical /\ OutcomeOf(PathOf(k), v, "False")) =>
                 \A j \in (i + 1)..Len(RuleOf(k).validators) :
                    Invoked(PathOf(k), RuleOf(k).validators[j].key)

\* C2: in Validator.execute, once a critical validator raises for a file, no
\* validator declared after it is invoked for that file, and write_report
\* has been called for the file with the messages accumulated so far, the
\* validator's failure message among them.
C2_CriticalFailureAborts ==
    step_type = "validate" =>
      \A k \in MatchedFiles :
        \A i \in 1..Len(RuleOf(k).validators) :
          LET v == RuleOf(k).validators[i].key
          IN (v \in Critical /\ OutcomeOf(PathOf(k), v, "raised")) =>
               /\ \A j \in (i + 1)..Len(RuleOf(k).validators) :
                     ~Invoked(PathOf(k), RuleOf(k).validators[j].key)
               /\ \E r \in ReportsFor(PathOf(k)) :
                     /\ \E m \in 1..Len(report_calls[r].messages) :
                           report_calls[r].messages[m].t \in
                              {"Mandatory columns are missing, cannot proceed with validation.",
                               "The dataframe is empty, cannot proceed with validation."}
                     /\ k = file_idx => report_calls[r].messages = messages

\* a critical validator has raised on a file whose rule declares another
\* validator after it, and the file is reported
C2_Witness ==
    /\ step_type = "validate"
    /\ \E k \in MatchedFiles :
         /\ Finished(k)
         /\ Len(RuleOf(k).validators) = 2
         /\ RuleOf(k).validators[1].key \in Critical
         /\ OutcomeOf(PathOf(k), RuleOf(k).validators[1].key, "raised")
         /\ ReportsFor(PathOf(k)) # {}

\* C3: the executor tells the two failure signals apart: after a validator
\* raises the next validator of the rule is not invoked, after a validator
\* returns False it is.
C3_RaiseAbortsFalseContinues ==
    step_type = "validate" =>
      \A k \in MatchedFiles :
        Finished(k) =>
          \A i \in 1..(Len(RuleOf(k).validators) - 1) :
            LET v == RuleOf(k).validators[i].key
                next == RuleOf(k).validators[i + 1].key
            IN /\ OutcomeOf(PathOf(k), v, "raised") => ~Invoked(PathOf(k), next)
               /\ OutcomeOf(PathOf(k), v, "False") => Invoked(PathOf(k), next)

----------------------------------------------------------------------------
(* Transform chain *)

\* the log recorded for a finished file
LogOf(k) == DictGet(transformation_results, PathOf(k)).log

SaveCalled(path) ==
    \E i \in 1..Len(calls) : calls[i].file = path /\ calls[i].kind = "save"

\* the message a log entry leaves in the file's message list
LoggedIn(entry, msgs) ==
    \E m \in 1..Len(msgs) :
        IF entry.status = "success"
        THEN msgs[m] = Msg("Transform '{name}' completed successfully", <<entry.transform>>)
        ELSE msgs[m].t \in {"Error in transform '{name}': {e}",
                            "Transformer function '{function}' not found",
                            "Error saving transformed file: {e}"}

\* C4: in DataTransformer.execute the transformed dataset is written only if
\* every entry of the file's log has status success; if a step failed,
\* save_transformed_file is never called for the file and write_report is
\* called with the file's full message list.
C4_SavedOnlyIfEveryStepSucceeded ==
    step_type = "transform" =>
      \A k \in MatchedFiles :
        Finished(k) =>
          LET log == LogOf(k)
              path == PathOf(k)
          IN /\ TransformedPath(path) \in DOMAIN output_files =>
                  \A i \in 1..Len(log) : log[i].status = "success"
             /\ (\E i \in 1..Len(log) :
                    log[i].status = "failed" /\ log[i].transform # "save_file") =>
                  /\ ~SaveCalled(path)
                  /\ TransformedPath(path) \notin DOMAIN output_files
                  /\ \E r \in ReportsFor(path) :
                        /\ report_calls[r].messages[1] = Header(path)
                        /\ \A i \in 1..Len(log) : LoggedIn(log[i], report_calls[r].messages)
                        /\ k = file_idx => report_calls[r].messages = messages

\* a file with one successful and one failed step has been finished: nothing
\* was saved and the file was reported
C4_Witness ==
    /\ step_type = "transform"
    /\ \E k \in MatchedFiles :
         /\ Finished(k)
         /\ Len(LogOf(k)) = 2
         /\ LogOf(k)[1].status = "failed"
         /\ LogOf(k)[2].status = "success"
         /\ ~SaveCalled(PathOf(k))
         /\ ReportsFor(PathOf(k)) # {}

\* the dataset a call leaves as the working dataset
Leaves(call) == IF call.outcome = "raised" THEN call.df ELSE call.result

\* C5: a transform step whose function id is unknown or whose function raises
\* appends exactly one log entry with status failed, leaves the working
\* dataset as the last successful step left it (the original if none), and
\* every later step of the rule is still executed against that dataset.
C5_FailedStepDoesNotHaltChain ==
    step_type = "transform" =>
      \A k \in MatchedFiles :
        k <= file_idx =>
          LET steps == SortByOrder(RuleOf(k).transforms)
              path == PathOf(k)
              made == CallsFor(path, "transform")
              log == IF Finished(k) THEN LogOf(k) ELSE transform_log
              known == {i \in 1..Len(steps) : steps[i].function \in TRANSFORMERS_DICT}
          IN /\ Finished(k) => Len(log) >= Len(steps) /\ Len(made) = Cardinality(known)
             /\ \A i \in 1..Len(steps) :
                  i <= Len(log) =>
                    /\ log[i].transform = steps[i].name
                    /\ Cardinality({j \in 1..Len(log) : log[j].transform = steps[i].name}) = 1
                    /\ log[i].status = "failed" <=>
                          \/ i \notin known
                          \/ \E c \in 1..Len(made) :
                                made[c].name = steps[i].name /\ made[c].outcome = "raised"
             /\ \A c \in 1..Len(made) :
                  made[c].df = IF c = 1 THEN to_process_files[k].val.data
                               ELSE Leaves(made[c - 1])
             /\ Finished(k) =>
                  DictGet(transformation_results, path).data =
                     IF made = <<>> THEN to_process_files[k].val.data
                     ELSE Leaves(made[Len(made)])

\* a step that raised was followed by a step that ran on the dataset the
\* raising step had received
C5_Witness ==
    /\ step_type = "transform"
    /\ \E k \in MatchedFiles :
         LET made == CallsFor(PathOf(k), "transform")
         IN /\ Finished(k)
            /\ Len(made) = 2
            /\ made[1].outcome = "raised"
            /\ made[2].outcome = "returned"
            /\ made[2].df = made[1].df
            /\ made[2].result # made[2].df

----------------------------------------------------------------------------
(* File matcher *)

\* shell-glob matching stated by the positions of the name a pattern prefix
\* can end at: * ends anywhere at or after, ? and a literal one character on
RECURSIVE EndsOf(_, _, _)
EndsOf(name, pat, i) ==
    IF i = 0 THEN {0}
    ELSE LET before == EndsOf(name, pat, i - 1)
         IN IF pat[i] = "*"
            THEN {q \in 0..Len(name) : \E b \in before : b <= q}
            ELSE {b + 1 : b \in {c \in before : c < Len(name)
                                    /\ (pat[i] = "?" \/ name[c + 1] = pat[i])}}

GlobMatches(name, pat) == Len(name) \in EndsOf(name, pat, Len(pat))

\* the last component of a path: its longest suffix without a separator
LastComponent(path) ==
    CHOOSE s \in {SubSeq(path, i, Len(path)) : i \in 1..(Len(path) + 1)} :
        /\ "/" \notin Range(s)
        /\ Len(s) = Len(path) \/ path[Len(path) - Len(s)] = "/"

\* the registry patterns that apply to a path's base filename
Applicable(path) ==
    {pat \in Range(DictKeys(registry)) : GlobMatches(LastComponent(path), pat)}

\* C6: match_file, matching on the base filename only, returns (pattern, None)
\* when exactly one registry pattern matches, (None, no-match error) when none
\* does, and (None, error listing every matching pattern) when several do.
C6_MatchFileTrichotomy ==
    \A path \in Range(file_paths) :
        \A r \in {match_file(path)}, applicable \in {Applicable(path)} :
            CASE Cardinality(applicable) = 1 ->
                    r.pattern \in applicable /\ r.error = NoError
              [] Cardinality(applicable) = 0 ->
                    /\ r.pattern = None
                    /\ r.error = Msg("No matching pattern found in registry for: {file_path}. Impossible to identify a work routine.",
                                     path)
              [] OTHER ->
                    /\ r.pattern = None
                    /\ r.error.t = "Multiple matches found for {file_path}: {matches}. Cannot uniquely identify processing routine."
                    /\ \A pat \in applicable :
                          Contains(r.error.arg, <<"'">> \o pat \o <<"'">>)

\* one batch holds a file two patterns apply to, rejected with both patterns
\* listed, and a file in a folder named like a pattern, matched by its base
\* name to the one pattern that applies
C6_Witness ==
    /\ pc = "files"
    /\ DictHas(error_files, FileGood)
    /\ DictGet(error_files, FileGood) = <<match_file(FileGood).error>>
    /\ Cardinality(Applicable(FileGood)) = 2
    /\ DictHas(to_process_files, FileEmpty)
    /\ DictGet(to_process_files, FileEmpty).pattern = PatternB
    /\ PatternA \in Range(DictKeys(registry))

----------------------------------------------------------------------------
(* Validation outcome *)

\* every validator the rule of the k-th file declares returned True
EveryValidatorTrue(k) ==
    \A i \in 1..Len(RuleOf(k).validators) :
        OutcomeOf(PathOf(k), RuleOf(k).validators[i].key, "True")

\* C7: in Validator.execute a file whose validators all return True is copied
\* unchanged to the output folder under its own base name, and no report is
\* produced for it.
C7_AllTrueCopiedNoReport ==
    step_type = "validate" =>
      \A k \in MatchedFiles :
        (Finished(k) /\ EveryValidatorTrue(k)) =>
           /\ ValidPath(PathOf(k)) \in DOMAIN output_files
           /\ output_files[ValidPath(PathOf(k))] = Disk(PathOf(k)).data
           /\ basename(ValidPath(PathOf(k))) = LastComponent(PathOf(k))
           /\ ReportsFor(PathOf(k)) = {}

\* a file whose two validators both returned True has been copied
C7_Witness ==
    /\ step_type = "validate"
    /\ \E k \in MatchedFiles :
         /\ Finished(k)
         /\ Len(RuleOf(k).validators) = 2
         /\ EveryValidatorTrue(k)
         /\ Copied(PathOf(k))

\* C8: in Validator.execute a file with a False validator result is not
\* copied, and the message list handed to the reporter for it holds the full
\* log including the per-validator pass/fail summary lines.
C8_FalseVerdictReportedWithSummary ==
    step_type = "validate" =>
      \A k \in MatchedFiles :
        (Finished(k) /\ \E i \in 1..Len(RuleOf(k).validators) :
                           OutcomeOf(PathOf(k), RuleOf(k).validators[i].key, "False")) =>
           /\ ~Copied(PathOf(k))
           /\ \E r \in ReportsFor(PathOf(k)) :
                 \E m \in 1..Len(report_calls[r].messages) :
                    report_calls[r].messages[m].t \in {"{name}: Passed", "{name}: Failed"}

----------------------------------------------------------------------------
(* Orchestration *)

\* C9: for both step types, every input file that cannot be read, has an
\* unsupported format, or matches no or several patterns is in the error set
\* and write_report has been called for it by the end of execute.
C9_ErrorFilesReported ==
    pc = "done" =>
      \A i \in 1..Len(file_paths) :
        ~DictHas(to_process_files, file_paths[i]) =>
           /\ DictHas(error_files, file_paths[i])
           /\ ReportsFor(file_paths[i]) # {}

\* the file was read, uniquely matched, ran its whole chain without a
\* failure and had its output persisted
FullSuccess(path) ==
    /\ DictHas(to_process_files, path)
    /\ IF step_type = "transform"
       THEN /\ DictHas(transformation_results, path)
            /\ NoneFailed(DictGet(transformation_results, path).log)
            /\ TransformedPath(path) \in DOMAIN output_files
       ELSE Copied(path)

ReportWritten(path) == \E r \in ReportsFor(path) : report_calls[r].written

\* C10: by the end of a transform or validate step a report file has been
\* written for an input file if and only if its outcome is not full success.
C10_ReportIffNotFullSuccess ==
    pc = "done" =>
      \A i \in 1..Len(file_paths) :
        ReportWritten(file_paths[i]) <=> ~FullSuccess(file_paths[i])

----------------------------------------------------------------------------
(* Error propagation *)

\* C11: within one call of execute no error arising while one file is
\* processed keeps the files after it in the batch from being processed: when
\* the call has ended, by returning or by raising, every matched file has
\* been reached by the loop.
C11_FileErrorsDoNotStopBatch ==
    pc \in {"done", "raised"} => file_idx = Len(to_process_files)

\* the rule names a validator that is not in VALIDATORS_DICT
NamesUnknown(rule) ==
    \E i \in 1..Len(rule.validators) : rule.validators[i].key \notin VALIDATORS_DICT

\* C12: in Validator.execute, once a file whose rule names a validator missing
\* from VALIDATORS_DICT has been processed, the call has ended with the
\* ValueError raised at that file, and nothing was reported for the file as a
\* data-quality failure, whatever the rule's other validators returned.
C12_UnknownValidatorIsFatal ==
    step_type = "validate" =>
      \A k \in MatchedFiles :
        (k <= file_idx /\ (k < file_idx \/ pc # "chain") /\ NamesUnknown(RuleOf(k))) =>
           /\ pc = "raised"
           /\ k = file_idx
           /\ ReportsFor(PathOf(k)) = {}

\* the rule lacks the key the step reads
LacksChain(rule) ==
    IF step_type = "transform" THEN "transforms" \notin rule.keys
    ELSE "validators" \notin rule.keys

\* C19: a matched file whose registry entry has no transforms key (transform
\* step) or no validators key (validate step) is processed with zero steps and
\* no error is raised.
C19_MissingKeyIsEmptyChain ==
    \A k \in MatchedFiles :
        (k <= file_idx /\ LacksChain(RuleOf(k))) =>
           /\ pc # "raised"
           /\ CallsFor(PathOf(k), "transform") = <<>>
           /\ CallsFor(PathOf(k), "validator") = <<>>

----------------------------------------------------------------------------
(* Reporter *)

\* the call write_report has just been made with
LastReportCall == report_calls'[Len(report_calls')]

\* C13: write_report writes no report file when the message list is empty or
\* every message contains "Passed"; in every other case it writes the report
\* file holding all the messages in order, and touches no other report.
C13_SuppressionRule ==
    [][report_calls' # report_calls =>
          LET msgs == LastReportCall.messages
              path == ReportPath(LastReportCall.file)
          IN IF msgs = <<>> \/ \A i \in 1..Len(msgs) : ContainsPassed(msgs[i])
             THEN report_files' = report_files
             ELSE /\ DOMAIN report_files' = DOMAIN report_files \cup {path}
                  /\ report_files'[path] = msgs
                  /\ \A q \in DOMAIN report_files \ {path} :
                        report_files'[q] = report_files[q]]_vars

\* a list with a failed line among passed ones was written, and a list whose
\* lines all contain "Passed", one of them only in a quoted file name, was not
C13_Witness ==
    /\ pc = "reporter"
    /\ Len(report_calls) = 2
    /\ report_calls[1] = ReportCall(FileNoAmount, <<LineFailed, LinePassed>>)
    /\ report_calls[2] = ReportCall(FileGood, <<LinePassed, LineQuotingPassed>>)
    /\ DOMAIN report_files = {ReportPath(FileNoAmount)}
    /\ report_files[ReportPath(FileNoAmount)] = <<LineFailed, LinePassed>>

\* the calls that wrote a report for the file, and those of other files that
\* wrote to the same report path
WritesFor(f) ==
    {i \in 1..Len(report_calls) : report_calls[i].file = f /\ report_calls[i].written}

WritesOver(f) ==
    {i \in 1..Len(report_calls) :
        /\ report_calls[i].file # f /\ report_calls[i].written
        /\ ReportPath(report_calls[i].file) = ReportPath(f)}

Latest(S) == CHOOSE i \in S : \A j \in S : j <= i

\* C14: after any sequence of non-suppressed write_report calls for one input
\* file, one report file exists for it and its content is the message list of
\* the latest call, not a concatenation with earlier ones.
C14_LatestWriteReplaces ==
    \A f \in ReportedFiles \cup Range(file_paths) :
        (WritesFor(f) # {} /\ WritesOver(f) = {}) =>
           /\ ReportPath(f) \in DOMAIN report_files
           /\ report_files[ReportPath(f)] = report_calls[Latest(WritesFor(f))].messages
           /\ Cardinality(DOMAIN report_files)
                 <= Cardinality({report_calls[i].file : i \in 1..Len(report_calls)})

\* two reports were written for the same file, with different messages
C14_Witness ==
    /\ pc = "reporter"
    /\ Len(report_calls) = 2
    /\ report_calls[1] = ReportCall(FileGood, <<LineFailed>>)
    /\ report_calls[2] = ReportCall(FileGood, <<LinePassed, LineFailed>>)
    /\ DOMAIN report_files = {ReportPath(FileGood)}
    /\ report_files[ReportPath(FileGood)] = <<LinePassed, LineFailed>>

----------------------------------------------------------------------------
(* Order of the transform steps *)

\* where the rule declares a step
DeclaredAt(transforms, step) == CHOOSE i \in 1..Len(transforms) : transforms[i] = step

\* the steps of a rule by ascending order key, those with equal keys as
\* declared
ClaimedOrder(transforms) ==
    CHOOSE s \in DistinctSeqs(Range(transforms), Len(transforms)) :
        /\ Len(s) = Len(transforms)
        /\ \A i, j \in 1..Len(s) :
              i < j => \/ s[i].order < s[j].order
                       \/ /\ s[i].order = s[j].order
                          /\ DeclaredAt(transforms, s[i]) < DeclaredAt(transforms, s[j])

\* the lines execute appends to the message list, one per step
StatusLines(msgs) ==
    SelectSeq(msgs, LAMBDA m : m.t \in {"Transform '{name}' completed successfully",
                                        "Error in transform '{name}': {e}",
                                        "Transformer function '{function}' not found"})

\* C15: in DataTransformer.execute the steps of a rule run in ascending value
\* of their order key, steps with equal keys in declaration order; the first
\* step receives the original dataset, each later step the dataset returned
\* by the most recent successful step, every step is called with its own
\* params, and all of them append to the file's one message list.
C15_StepsRunInOrder ==
    step_type = "transform" =>
      \A k \in MatchedFiles :
        (k <= file_idx /\ ~LacksChain(RuleOf(k))) =>
          \A steps \in {ClaimedOrder(RuleOf(k).transforms)},
             made \in {CallsFor(PathOf(k), "transform")},
             log \in {IF Finished(k) THEN LogOf(k) ELSE transform_log} :
            \A ran \in {SubSeq(steps, 1, IF Len(log) < Len(steps) THEN Len(log) ELSE Len(steps))} :
              \A known \in {SelectSeq(ran, LAMBDA t : t.function \in TRANSFORMERS_DICT)} :
                /\ Finished(k) => Len(ran) = Len(steps)
                /\ \A i \in 1..Len(ran) : log[i].transform = ran[i].name
                /\ Len(made) = Len(known)
                /\ \A c \in 1..Len(made) :
                     /\ made[c].name = known[c].name
                     /\ made[c].df = IF c = 1 THEN to_process_files[k].val.data
                                     ELSE Leaves(made[c - 1])
                     /\ \A r \in {CallTransformer(known[c].function, made[c].df, <<>>,
                                                   known[c].params)} :
                           IF r.raised THEN made[c].outcome = "raised"
                           ELSE made[c].outcome = "returned" /\ made[c].result = r.df
                /\ (k = file_idx /\ pc = "chain") =>
                     /\ Len(StatusLines(messages)) = Len(log)
                     /\ Len(messages) >= Len(log) + Cardinality({c \in 1..Len(made) :
                                                                  made[c].outcome = "returned"})

\* the names of the entries of a log
LogNames(log) == [i \in 1..Len(log) |-> log[i].transform]

\* two files of one batch whose rules declare the same two steps of equal
\* order key in opposite orders: each file's steps ran as its rule declares
\* them; and the second step of one received what the first had returned
C15_Witness ==
    /\ step_type = "transform"
    /\ pc = "done"
    /\ \E k1, k2 \in MatchedFiles :
         /\ LogNames(LogOf(k1)) = <<"strip", "ghost">>
         /\ LogNames(LogOf(k2)) = <<"ghost", "strip">>
    /\ \E k \in MatchedFiles :
         LET made == CallsFor(PathOf(k), "transform")
         IN Len(made) = 1 /\ made[1].result # made[1].df

----------------------------------------------------------------------------
(* A fully successful transform *)

\* every step of the k-th file's rule names a known function and its call
\* returned
AllStepsSucceeded(k) ==
    LET made == CallsFor(PathOf(k), "transform")
    IN /\ Len(made) = Len(RuleOf(k).transforms)
       /\ \A c \in 1..Len(made) : made[c].outcome = "returned"

\* the log holds one success entry per step, in ascending order of the
\* order keys, and nothing else
OneSuccessPerStep(log, transforms) ==
    /\ Len(log) = Len(transforms)
    /\ \A steps \in {ClaimedOrder(transforms)} :
          \A i \in 1..Len(log) :
             log[i].transform = steps[i].name /\ log[i].status = "success"

\* C16 as stated: in DataTransformer.execute, for every matched file whose
\* transform steps all succeed, the output file exists after the call and the
\* file's log is exactly one success entry per step in ascending order of the
\* order keys.
C16_AllSucceededSavedAndLogged ==
    step_type = "transform" =>
      \A k \in MatchedFiles :
        (Finished(k) /\ AllStepsSucceeded(k)) =>
           /\ TransformedPath(PathOf(k)) \in DOMAIN output_files
           /\ OneSuccessPerStep(LogOf(k), RuleOf(k).transforms)

\* the calls of save_transformed_file made for a file
SavesFor(path) == CallsFor(path, "save")

\* C16 as amended: for every matched file whose transform steps all succeed,
\* save_transformed_file is called once with the final dataset; when it
\* returns, the output file exists and the log is exactly one success entry
\* per step in ascending order of the order keys; when it raises, the log is
\* those success entries followed by one failed entry named save_file.
C16_AllSucceededSaveAttempted ==
    step_type = "transform" =>
      \A k \in MatchedFiles :
        (Finished(k) /\ AllStepsSucceeded(k)) =>
          \A saves \in {SavesFor(PathOf(k))}, log \in {LogOf(k)} :
           /\ Len(saves) = 1
           /\ saves[1].df = DictGet(transformation_results, PathOf(k)).data
           /\ IF saves[1].outcome = "returned"
              THEN /\ TransformedPath(PathOf(k)) \in DOMAIN output_files
                   /\ OneSuccessPerStep(log, RuleOf(k).transforms)
              ELSE /\ Len(log) = Len(RuleOf(k).transforms) + 1
                   /\ OneSuccessPerStep(SubSeq(log, 1, Len(log) - 1), RuleOf(k).transforms)
                   /\ log[Len(log)].transform = "save_file"
                   /\ log[Len(log)].status = "failed"

\* two files of one batch ran both of their steps successfully; the output of
\* one was saved, the save of the other failed
C16_Witness ==
    /\ step_type = "transform"
    /\ pc = "done"
    /\ \E k1, k2 \in MatchedFiles :
         /\ AllStepsSucceeded(k1) /\ AllStepsSucceeded(k2)
         /\ Len(RuleOf(k1).transforms) = 2
         /\ TransformedPath(PathOf(k1)) \in DOMAIN output_files
         /\ Len(LogOf(k1)) = 2
         /\ TransformedPath(PathOf(k2)) \notin DOMAIN output_files
         /\ Len(LogOf(k2)) = 3

----------------------------------------------------------------------------
(* The value execute returns *)

\* the mapping the step returns
Returned_results ==
    IF step_type = "transform" THEN transformation_results ELSE validation_results

\* the entry is the k-th file's own outcome: its final dataset and the log
\* of its steps, or the verdicts of its validators
OwnOutcome(entry, k) ==
    IF step_type = "transform"
    THEN LET made == CallsFor(PathOf(k), "transform")
         IN /\ entry.data = IF made = <<>> THEN to_process_files[k].val.data
                            ELSE Leaves(made[Len(made)])
            /\ \A i \in 1..Len(RuleOf(k).transforms) :
                  \E j \in 1..Len(entry.log) :
                     entry.log[j].transform = RuleOf(k).transforms[i].name
            /\ Len(entry.log) \in {Len(RuleOf(k).transforms), Len(RuleOf(k).transforms) + 1}
    ELSE \A i \in 1..Len(entry) :
            /\ \E j \in 1..Len(RuleOf(k).validators) :
                  RuleOf(k).validators[j].key = entry[i].key
            /\ OutcomeOf(PathOf(k), entry[i].key, entry[i].val)

\* C17: the value returned by DataTransformer.execute and by Validator.execute
\* is a mapping keyed by file: exactly one entry per matched file, holding
\* that file's own outcome, never overwritten by or merged with another
\* file's.
C17_ResultsKeyedByFile ==
    pc = "done" =>
      /\ Len(Returned_results) = Len(to_process_files)
      /\ Range(DictKeys(Returned_results)) = {PathOf(k) : k \in MatchedFiles}
      /\ \A k \in MatchedFiles : OwnOutcome(DictGet(Returned_results, PathOf(k)), k)

----------------------------------------------------------------------------
(* The report of a file lacking required columns *)

\* required_columns raised on the k-th file: it is the first validator of the
\* file's chain to fail
RequiredColumnsAborted(k) == OutcomeOf(PathOf(k), "required_columns", "raised")

\* the required columns the k-th file's dataset lacks, as the rule lists them
MissingOf(k) ==
    SelectSeq(DictGet(RuleOf(k).validators, "required_columns").columns,
              LAMBDA col : \A i \in 1..Len(to_process_files[k].val.data.columns) :
                              to_process_files[k].val.data.columns[i] # col)

----------------------------------------------------------------------------
(* Matching and the order of the registry's keys *)

\* the orders in which a registry can hold the same patterns
KeyOrders(keys) == {s \in DistinctSeqs(Range(keys), Len(keys)) : Len(s) = Len(keys)}

\* C20: match_file is pattern-set-stable: for the same file name and two
\* registries holding the same patterns and rules in different key orders the
\* returned (pattern, error) results are identical.
C20_MatchIgnoresKeyOrder ==
    pc # "start" =>
      \A path \in Range(file_paths) :
        \A keys \in KeyOrders(DictKeys(registry)) :
            match_file_in(keys, path) = match_file(path)

----------------------------------------------------------------------------
(* Copy or report *)

\* the calls of save_valid_files made for a file
CopiesFor(path) == CallsFor(path, "copy")

\* the validator was invoked for the file and handed back a truthy value
ReturnedTruthy(path, name) ==
    \E i \in 1..Len(calls) :
        /\ calls[i].file = path /\ calls[i].kind = "validator" /\ calls[i].name = name
        /\ calls[i].outcome \notin {"False", "None", "0", "raised"}

\* C22: in Validator.execute, for every matched file whose processing
\* completes, exactly one of two things happened: save_valid_files copied the
\* file, or write_report was called for it; and a copy is made only of a file
\* for which every validator its rule declares was invoked and returned a
\* truthy result.
C22_CopyXorReport ==
    step_type = "validate" =>
      \A k \in MatchedFiles :
        /\ Finished(k) =>
              /\ Len(CopiesFor(PathOf(k))) + Cardinality(ReportsFor(PathOf(k))) = 1
              /\ Copied(PathOf(k)) <=> CopiesFor(PathOf(k)) # <<>>
        /\ CopiesFor(PathOf(k)) # <<>> =>
              \A i \in 1..Len(RuleOf(k).validators) :
                 ReturnedTruthy(PathOf(k), RuleOf(k).validators[i].key)

\* of two files under one rule of two validators, one was copied and never
\* reported, the other reported and never copied
C22_Witness ==
    /\ step_type = "validate"
    /\ pc = "done"
    /\ \E k1, k2 \in MatchedFiles :
         /\ Len(RuleOf(k1).validators) = 2
         /\ Copied(PathOf(k1)) /\ ReportsFor(PathOf(k1)) = {}
         /\ ~Copied(PathOf(k2)) /\ Cardinality(ReportsFor(PathOf(k2))) = 1

----------------------------------------------------------------------------
(* The two mappings of to_process_files *)

\* the messages with which read_file gives a file up
ReadMessages == {"Error reading file {file_path}: {e}",
                 "Unsupported file format for {file_path}. Only CSV and Parquet files are supported."}

\* C23: to_process_files partitions its input: the key sets of the two
\* mappings it returns are disjoint and their union is the set of input paths;
\* a file whose read fails is in the error mapping with only its read message,
\* whatever the registry's patterns make of its name; and only files of the
\* first mapping are passed to a transform function or a validator.
C23_ToProcessPartitions ==
    pc # "start" =>
      \A matched \in {Range(DictKeys(to_process_files))},
         errors \in {Range(DictKeys(error_files))} :
        /\ matched \cap errors = {}
        /\ matched \cup errors = Range(file_paths)
        /\ \A path \in Range(file_paths) :
              read_file(path).is_none =>
                 /\ path \in errors
                 /\ Len(DictGet(error_files, path)) = 1
                 /\ DictGet(error_files, path)[1].t \in ReadMessages
                 /\ DictGet(error_files, path)[1].arg = path
        /\ \A i \in 1..Len(calls) : calls[i].file \in matched

\* a file of an unsupported format whose name two patterns of the registry
\* match is in the error mapping with its read message, and the other file of
\* the batch was matched and passed on
C23_Witness ==
    /\ pc = "done"
    /\ Len(file_paths) = 2
    /\ DictHas(error_files, FileText)
    /\ DictGet(error_files, FileText) = read_file(FileText).messages
    /\ Len(Matches(FileText)) = 2
    /\ Len(to_process_files) = 1
    /\ calls # <<>>

----------------------------------------------------------------------------
(* What cuts a validator chain short *)

\* the validator calls made for the k-th file, in order
ValidatorCalls(k) == CallsFor(PathOf(k), "validator")

\* the outcomes that reach execute as the boolean False: a returned False, a
\* tuple led by False, a raised exception
HandsBackFalse == {"False", "raised"}

\* the falsy values that are not the boolean False
OtherFalsy == {"None", "0"}

\* a report of the file holds the summary line that marks the validator failed
SummarisedAsFailed(path, name) ==
    \E r \in ReportsFor(path) :
        /\ report_calls[r].written
        /\ \E m \in 1..Len(report_calls[r].messages) :
              report_calls[r].messages[m] = Msg("{name}: Failed", <<name>>)

\* the validators are called in the order of the rule, and a call that is
\* followed by another did not hand back False; a chain of a finished file
\* that stopped before the rule's last validator stopped at such a call
OnlyFalseCutsChain(k) ==
    \A made \in {ValidatorCalls(k)}, declared \in {RuleOf(k).validators} :
        /\ Len(made) <= Len(declared)
        /\ \A c \in 1..Len(made) : made[c].name = declared[c].key
        /\ \A c \in 1..(Len(made) - 1) : made[c].outcome \notin HandsBackFalse
        /\ (Finished(k) /\ Len(made) < Len(declared)) =>
               /\ made # <<>>
               /\ made[Len(made)].outcome \in HandsBackFalse

\* C24 as stated: in Validator.execute the chain is cut short only by a result
\* that is exactly the boolean False; a validator returning another falsy
\* value (None, 0) does not stop the chain, is recorded as Failed in the
\* per-validator summary, and the file is then reported and not copied.
C24_FalsyIsSummarisedAsFailed ==
    step_type = "validate" =>
      \A k \in MatchedFiles :
        k <= file_idx =>
          /\ OnlyFalseCutsChain(k)
          /\ Finished(k) =>
                \A c \in 1..Len(ValidatorCalls(k)) :
                   ValidatorCalls(k)[c].outcome \in OtherFalsy =>
                      /\ c < Len(RuleOf(k).validators) => c < Len(ValidatorCalls(k))
                      /\ SummarisedAsFailed(PathOf(k), ValidatorCalls(k)[c].name)
                      /\ CopiesFor(PathOf(k)) = <<>>

\* C24 as amended: the chain is cut short only by a result that is exactly the
\* boolean False; for a file whose processing completes, a validator returning
\* another falsy value (None, 0) does not stop the chain and the file is not
\* copied; when no later validator cuts the chain short the validator is
\* recorded as Failed in the summary of the file's one report; when a later
\* one does, write_report is called once, with the messages accumulated up to
\* that point, which hold no summary.
C24_FalsyFailsACompletedChain ==
    step_type = "validate" =>
      \A k \in MatchedFiles :
        k <= file_idx =>
          /\ OnlyFalseCutsChain(k)
          /\ Finished(k) =>
                \A made \in {ValidatorCalls(k)} :
                  \A c \in 1..Len(made) :
                    made[c].outcome \in OtherFalsy =>
                      /\ c < Len(RuleOf(k).validators) => c < Len(made)
                      /\ CopiesFor(PathOf(k)) = <<>>
                      /\ Cardinality(ReportsFor(PathOf(k))) = 1
                      /\ IF Len(made) = Len(RuleOf(k).validators)
                            /\ made[Len(made)].outcome \notin HandsBackFalse
                         THEN SummarisedAsFailed(PathOf(k), made[c].name)
                         ELSE \A r \in ReportsFor(PathOf(k)) :
                                 \A m \in 1..Len(report_calls[r].messages) :
                                    report_calls[r].messages[m].t \notin
                                       {"------ VALIDATION RESULTS -------",
                                        "{name}: Passed", "{name}: Failed"}

\* a validator returned None, the validator declared after it was invoked and
\* returned True, and the file was reported, with the first marked Failed in
\* the summary, and not copied
C24_Witness ==
    /\ step_type = "validate"
    /\ \E k \in MatchedFiles :
         /\ Finished(k)
         /\ Len(ValidatorCalls(k)) = 2
         /\ ValidatorCalls(k)[1].outcome = "None"
         /\ ValidatorCalls(k)[2].outcome = "True"
         /\ SummarisedAsFailed(PathOf(k), ValidatorCalls(k)[1].name)
         /\ ~Copied(PathOf(k))

----------------------------------------------------------------------------
(* The verdicts execute returns *)

\* the k-th file's chain ran through every validator its rule declares
RanThrough(k) ==
    \A made \in {ValidatorCalls(k)} :
        /\ Len(made) = Len(RuleOf(k).validators)
        /\ \A c \in 1..Len(made) : made[c].outcome \notin HandsBackFalse

\* the files whose loop body has been left, by its end or by an exception
LoopBodyLeft == {k \in MatchedFiles : k < file_idx \/ (k = file_idx /\ pc # "chain")}

\* the value the validator handed back for the k-th file
VerdictOf(k, name) ==
    LET made == ValidatorCalls(k)
    IN made[CHOOSE c \in 1..Len(made) : made[c].name = name].outcome

\* C25: in Validator.execute a file whose chain was cut short leaves
\* validation_results unchanged, the results of the validators that passed on
\* it before the failing one being discarded: validation_results holds the
\* verdicts of the files whose chain ran through every declared validator,
\* each name with the verdict of the latest such file, and nothing else.
C25_CutShortChainLeavesResults ==
    step_type = "validate" =>
      \A through \in {{k \in LoopBodyLeft : RanThrough(k) /\ ~LacksChain(RuleOf(k))}} :
        /\ Range(DictKeys(validation_results)) =
              UNION {Range(DictKeys(RuleOf(k).validators)) : k \in through}
        /\ \A i \in 1..Len(validation_results) :
              \A name \in {validation_results[i].key} :
                 validation_results[i].val =
                    VerdictOf(Latest({k \in through : DictHas(RuleOf(k).validators, name)}), name)

\* the first of two matched files has been left with its chain cut short by
\* its second validator, after the first had passed: validation_results is
\* still empty
C25_Witness ==
    /\ step_type = "validate"
    /\ pc = "files"
    /\ file_idx = 1
    /\ Len(to_process_files) = 2
    /\ Len(ValidatorCalls(1)) = 2
    /\ ValidatorCalls(1)[1].outcome = "True"
    /\ ValidatorCalls(1)[2].outcome \in HandsBackFalse
    /\ validation_results = <<>>

----------------------------------------------------------------------------
(* Input files that share a report *)

\* the base name of a path up to its last dot, leading dots apart
StemOf(path) ==
    LET name == LastComponent(path)
        dots == {i \in 2..Len(name) :
                    name[i] = "." /\ \E k \in 1..(i - 1) : name[k] # "."}
    IN IF dots = {} THEN name
       ELSE SubSeq(name, 1, (CHOOSE i \in dots : \A j \in dots : j <= i) - 1)

\* the calls that wrote a report for a file with the given stem
WritesForStem(stem) ==
    {i \in 1..Len(report_calls) :
        report_calls[i].written /\ StemOf(report_calls[i].file) = stem}

\* C26: the report path depends only on the base directory and the input
\* file's base name without its extension: the reports of input files with the
\* same stem, in different folders or with different extensions, go to the
\* same path, and that report holds only the messages of the latest
\* write_report call that wrote one of them.
C26_SameStemSharesReport ==
    /\ \A f \in ReportedFiles \cup Range(file_paths) :
          ReportPath(f) = base_report_path \o <<"/">> \o StemOf(f) \o <<".", "t", "x", "t">>
    /\ \A i \in 1..Len(report_calls) :
          \A writes \in {WritesForStem(StemOf(report_calls[i].file))} :
             writes # {} =>
                /\ ReportPath(report_calls[i].file) \in DOMAIN report_files
                /\ report_files[ReportPath(report_calls[i].file)] =
                      report_calls[Latest(writes)].messages
    /\ Cardinality(DOMAIN report_files) =
          Cardinality({StemOf(report_calls[i].file) :
                          i \in {j \in 1..Len(report_calls) : report_calls[j].written}})

\* reports were written for two files of the same stem, in different folders
\* and with different extensions: one report file exists and it holds the
\* messages of the second call
C26_Witness ==
    /\ pc = "reporter"
    /\ Len(report_calls) = 2
    /\ report_calls[1] = ReportCall(FileElsewhere, <<LineFailed>>)
    /\ report_calls[2] = ReportCall(FileText, <<LinePassed, LineFailed>>)
    /\ DOMAIN report_files = {ReportPath(FileText)}
    /\ report_files[ReportPath(FileText)] = <<LinePassed, LineFailed>>

----------------------------------------------------------------------------
(* Construction without an output folder *)

\* C21: constructing DataTransformer or Validator with a step name and with
\* output_folder_path omitted (None), the other arguments being sound,
\* succeeds, and the step name is used as the output folder.
C21_OmittedOutputDefaultsToName ==
    (/\ run_pc = "constructed"
     /\ ctor_call.name # None
     /\ ctor_call.registry_path \in RegistryFiles
     /\ ctor_call.report_path # None
     /\ ctor_call.input_folder_path # None
     /\ ctor_call.output_folder_path = None) =>
        /\ step_instance.raised = "None"
        /\ step_instance.instance.handler.output_folder_path = ctor_call.name
        /\ step_instance.instance.output_folder_path \in
              {ctor_call.name, join(PATH_STAGING_RUN, ctor_call.name)}

----------------------------------------------------------------------------
(* The steps of a run *)

\* what run logged for the i-th entry of the steps list
EventsOf(i) == SelectSeq(run_log, LAMBDA e : e.step = i)

\* the exceptions that are not a ValueError
OtherExceptions == {"FileNotFoundError", "KeyError", "OSError"}

\* one step's events are those of a step taken to its end: skipped, or
\* constructed and, if that did not raise, executed
RunToCompletion(events) ==
    \/ Len(events) = 1 /\ events[1].event = "skipped"
    \/ Len(events) = 1 /\ events[1].event = "construct" /\ events[1].exception # "None"
    \/ /\ Len(events) = 2
       /\ events[1].event = "construct" /\ events[1].exception = "None"
       /\ events[2].event = "execute"

\* C27: in main.run the steps run strictly in configuration order, each to
\* completion before the next; a ValueError raised while a step is constructed
\* or executed is caught and the step after it is taken up as if the step had
\* returned; an exception of any other type ends the run, so that no later
\* step is constructed or executed.
C27_OnlyValueErrorIsCaught ==
    run_pc \in {"loop", "execute", "ended", "crashed"} =>
      /\ {run_log[i].step : i \in 1..Len(run_log)} = 1..run_idx
      /\ \A a, b \in 1..Len(run_log) : a < b => run_log[a].step <= run_log[b].step
      /\ \A i \in 1..run_idx :
            (i < run_idx \/ run_pc # "execute") => RunToCompletion(EventsOf(i))
      /\ \A i \in 1..Len(run_log) :
            /\ run_log[i].exception = "ValueError" =>
                  /\ i = Len(run_log) => run_pc \in {"loop", "ended"}
                  /\ run_pc = "ended" => run_idx = Len(pipeline_config)
            /\ run_log[i].exception \in OtherExceptions =>
                  /\ i = Len(run_log)
                  /\ run_pc = "crashed"
                  /\ run_idx = run_log[i].step
            /\ run_log[i].exception \in {"None", "ValueError"} \cup OtherExceptions
      /\ run_pc = "ended" => run_idx = Len(pipeline_config)
      /\ run_pc = "crashed" =>
            /\ run_log # <<>>
            /\ run_log[Len(run_log)].exception \in OtherExceptions

\* of three configured steps the first raised a ValueError in execute, the
\* second was then constructed and raised FileNotFoundError in execute, and
\* the third was never taken up
C27_Witness ==
    /\ run_pc = "crashed"
    /\ Len(pipeline_config) = 3
    /\ run_idx = 2
    /\ Len(run_log) = 4
    /\ run_log[2] = RunEvent(1, "execute", "ValueError")
    /\ run_log[3] = RunEvent(2, "construct", "None")
    /\ run_log[4] = RunEvent(2, "execute", "FileNotFoundError")
    /\ ~pipeline_config[3].none

====
